---- MODULE Spec2Model ----
(***************************************************************************)
(* A model of the request pipeline of gakido: the connection pool          *)
(* (gakido/pool.py), the token bucket (gakido/rate_limit.py), the retry    *)
(* controller (gakido/backoff.py) and the request entry points of the      *)
(* blocking and the cooperative client (gakido/client.py, gakido/aio.py),  *)
(* and the transports below them: the HTTP/3 fallback, the pooled request  *)
(* and the streamed connection, the SOCKS5 handshake, Connection.connect   *)
(* and the HTTP/2 read loop; timeouts, sessions and their cookie jar,      *)
(* canonicalize_headers, the profile registry, the sliding window limiter, *)
(* the awaits of a cooperative request, the pool under threads, and one    *)
(* Connection object with the bytes it writes; the body framing the        *)
(* HTTP/1.1 readers choose and the header list an HTTP/1.1 request is      *)
(* written with; the iterators of a streaming response.                    *)
(***************************************************************************)
EXTENDS Integers, Sequences, FiniteSets, TLC

(***************************************************************************)
(* Bounds of the model.                                                    *)
(***************************************************************************)
\* Connection objects the pool constructs in one run.
MaxConns == 2
\* The largest max_per_host a pool is configured with.
MaxPerHost == 1
\* The last instant of the clock.
MaxTime == 3
\* The largest rate and the largest capacity a bucket is configured with.
MaxRate == 2
MaxCapacity == 3
\* The largest max_retries a client is configured with.
MaxRetries == 2
\* The most DATA events one HTTP/2 response is followed for, and the most
\* chunks the body of a streamed response arrives in.
MaxData == 2
\* The most header fields one HTTP/2 response is followed for.
MaxFields == 2
\* The most get_profile calls, those of client constructors included.
MaxCopies == 2
\* The largest max_requests and the largest window_seconds a sliding
\* window limiter is configured with.
MaxRequests == 2
\* The sockets dialled for one Connection object and for Client.stream.
MaxSockets == 2
MaxWindow == 2
\* The most tokens one acquire call asks for; no bucket of the model has a
\* smaller capacity, so every call asks for tokens the bucket can hold.
MaxTokens == 2

None == "None"

\* The threads (or tasks) that call the pool.
Callers == {"t1", "t2"}

(***************************************************************************)
(* Pool keys.  A request is for (scheme, host, port, proxy_url), the four  *)
(* values Client._make_request computes before it asks the pool for a      *)
(* connection.                                                             *)
(***************************************************************************)
RequestKeys ==
    { [scheme |-> "https", host |-> "a.test", port |-> 443, proxy_url |-> None],
      [scheme |-> "https", host |-> "a.test", port |-> 443,
       proxy_url |-> "socks5://p:1080"],
      [scheme |-> "http", host |-> "b.test", port |-> 80, proxy_url |-> None] }

VARIABLES
    conns,          \* the Connection objects made so far, by identity (index)
    pools,          \* ConnectionPool._pools: key -> list of idle connections
    max_per_host,   \* ConnectionPool.max_per_host
    leases,         \* caller -> connection -> acquire results not yet given back
    issued,         \* connection -> the request keys acquire returned it for
    reused,         \* the connections acquire has returned from an idle list
    evicted         \* the connections release closed because the bucket was full

poolVars == <<conns, pools, max_per_host, leases, issued, reused, evicted>>

VARIABLES
    now,            \* time.monotonic(), in ticks
    rate,           \* TokenBucket.rate, tokens per tick
    capacity,       \* TokenBucket.capacity
    blocking,       \* TokenBucket.blocking
    tokens,         \* TokenBucket._tokens
    last_update,    \* TokenBucket._last_update
    after_refill,   \* _tokens as the latest _refill left it
    sleepers,       \* caller -> its acquire call asleep outside the lock, or Awake
    granted         \* instant -> tokens handed out by acquire calls returning then

bucketVars == <<now, rate, capacity, blocking, tokens, last_update, after_refill,
                sleepers, granted>>

VARIABLES
    kind,           \* "Client" (client.py) or "AsyncClient" (aio.py)
    max_retries,    \* the client's max_retries
    rate_limit,     \* TRUE when the client is to use a rate limiter (the bucket)
    req             \* the request call in progress: its position and locals

clientVars == <<kind, max_retries, rate_limit, req>>

VARIABLES
    http3_enabled,      \* AsyncClient.http3_enabled
    http3_fallback,     \* AsyncClient.http3_fallback
    h3_failed_hosts,    \* AsyncClient._h3_failed_hosts
    h3_protocols,       \* the keys of AsyncClient._h3_protocols
    ever_failed,        \* every host _h3_failed_hosts has held so far
    h3req               \* task -> its _make_request call: position and locals

h3Vars == <<http3_enabled, http3_fallback, h3_failed_hosts, h3_protocols,
            ever_failed, h3req>>

VARIABLES
    use_native,     \* Client.use_native
    sock,           \* connection -> Connection.sock, a socket number or 0 (None)
    streams,        \* connection -> the StreamingResponse made from it, if any
    exec,           \* caller -> its _make_request call: position and locals
    failed_conns,   \* the connections a request on which raised
    close_conns,    \* <<connection, raw headers>> of the responses asking to close
    stream_conns,   \* the connections that gave their socket to a StreamingResponse
    handed_again    \* the connections of those three sets acquire returned later

execVars == <<use_native, sock, streams, exec, failed_conns, close_conns,
              stream_conns, handed_again>>

VARIABLES
    socks5          \* the SOCKS5 handshake in progress on one socket

socksVars == <<socks5>>

VARIABLES
    tls             \* Connection -> its fields and the connect() call running on it

tlsVars == <<tls>>

VARIABLES
    h2              \* transport -> the HTTP/2 request running on it

h2Vars == <<h2>>

VARIABLES
    tmo             \* caller -> the timed call it is in

timeoutVars == <<tmo>>

VARIABLES
    auto_referer,   \* Session.auto_referer
    last_url,       \* Session._last_url
    store,          \* Session.cookies.store: host -> name -> value
    call,           \* the latest call of Session.request
    prev_url        \* the URL of the call before the latest one

sessionVars == <<auto_referer, last_url, store, call, prev_url>>

VARIABLES
    hdr             \* one call of canonicalize_headers: arguments and result

headerVars == <<hdr>>

VARIABLES
    heap,           \* the objects: PROFILES' own and those made since
    handles,        \* the results of the get_profile calls of other callers
    client_profile  \* the latest client constructed and its self.profile

profileVars == <<heap, handles, client_profile>>

VARIABLES
    max_requests,   \* SlidingWindowLimiter.max_requests
    window_seconds, \* SlidingWindowLimiter.window_seconds
    sw_blocking,    \* SlidingWindowLimiter.blocking
    timestamps,     \* SlidingWindowLimiter._timestamps
    monotonic,      \* the clock time.monotonic() reads
    sw_calls,       \* caller -> where its acquire() is
    sw_granted      \* instant -> how many acquire calls returned at it

windowVars ==
    <<max_requests, window_seconds, sw_blocking, timestamps, monotonic,
      sw_calls, sw_granted>>

VARIABLES
    aio             \* task -> its run of AsyncClient._make_request

aioVars == <<aio>>

VARIABLES
    pool_pc         \* thread -> where its acquire or release call is

raceVars == <<pool_pc>>

VARIABLES
    connection,     \* the fields sock, closed, negotiated_protocol of a Connection
    sockets,        \* socket number -> its state and what was written to it
    last_call       \* the last operation on the Connection and how it ended

wireVars == <<connection, sockets, last_call>>

VARIABLES
    head,           \* the Transfer-Encoding and Content-Length of a response head
    chosen          \* reader -> the body framing it chose for the head, if it read it

framingVars == <<head, chosen>>

VARIABLES
    merged_headers  \* client -> the header list it writes for the request drawn

keepVars == <<merged_headers>>

VARIABLES
    sresp,          \* a streaming response: its class, _closed, the body not yet read
    iters           \* iterator -> the generator made by iter_bytes or iter_lines

streamingVars == <<sresp, iters>>

\* The state of the transports below the request entry points.
transportVars ==
    <<h3Vars, execVars, socksVars, tlsVars,
      h2Vars, timeoutVars, sessionVars, headerVars,
      profileVars, windowVars, aioVars, raceVars,
      wireVars, framingVars, keepVars, streamingVars>>

vars == <<poolVars, bucketVars, clientVars, transportVars>>

ConnIds == 1..Len(conns)

\* key = (scheme, host, port) as ConnectionPool.acquire and release build it.
PoolKey(scheme, host, port) == <<scheme, host, port>>

PoolKeys == { PoolKey(k.scheme, k.host, k.port) : k \in RequestKeys }

\* Connection.__init__: a new Connection holds no socket and is closed.
NewConnection(host, port, scheme) ==
    [host |-> host, port |-> port, scheme |-> scheme,
     proxy_url |-> None, closed |-> TRUE]

\* Connection.close(): drops the socket and marks the connection closed.
ConnectionClose(cs, c) == [cs EXCEPT ![c].closed = TRUE]

(***************************************************************************)
(* ConnectionPool.acquire: pop idle connections of the key from the end of *)
(* the list until an open one is found; every popped connection leaves the *)
(* list.  The result is <<connection or 0, the list that remains>>.        *)
(***************************************************************************)
RECURSIVE PopOpen(_, _)
PopOpen(bucket, cs) ==
    IF bucket = <<>> THEN <<0, <<>>>>
    ELSE LET conn == bucket[Len(bucket)]
             rest == SubSeq(bucket, 1, Len(bucket) - 1)
         IN IF ~cs[conn].closed THEN <<conn, rest>> ELSE PopOpen(rest, cs)

\* The same loop with the pop forgotten: the open connection found stays in
\* the idle list.
PeekOpen(bucket, cs) ==
    LET got == PopOpen(bucket, cs)
    IN <<got[1], IF got[1] # 0 THEN bucket ELSE got[2]>>

AcquireFrom(bucket, cs) == PopOpen(bucket, cs)

\* One more outstanding acquire result of connection c for caller t.
Lease(t, c) == [leases EXCEPT ![t][c] = @ + 1]

\* Caller t asks for a connection for request key k.  acquire takes scheme,
\* host and port only: the proxy of the request is no part of the key and
\* a Connection the pool constructs has no proxy_url.
Acquire(t, k) ==
    LET key == PoolKey(k.scheme, k.host, k.port)
        got == AcquireFrom(pools[key], conns)
    IN IF got[1] # 0
       THEN /\ pools' = [pools EXCEPT ![key] = got[2]]
            /\ leases' = Lease(t, got[1])
            /\ issued' = [issued EXCEPT ![got[1]] = @ \cup {k}]
            /\ reused' = reused \cup {got[1]}
            /\ UNCHANGED <<conns, max_per_host, evicted>>
       ELSE /\ Len(conns) < MaxConns
            /\ conns' = Append(conns, NewConnection(k.host, k.port, k.scheme))
            /\ pools' = [pools EXCEPT ![key] = got[2]]
            /\ leases' = [t2 \in Callers |->
                            [c \in 1..(Len(conns) + 1) |->
                                IF c = Len(conns) + 1
                                THEN (IF t2 = t THEN 1 ELSE 0)
                                ELSE leases[t2][c]]]
            /\ issued' = [c \in 1..(Len(conns) + 1) |->
                            IF c = Len(conns) + 1 THEN {k} ELSE issued[c]]
            /\ UNCHANGED <<max_per_host, reused, evicted>>

(***************************************************************************)
(* Connection.connect, as Connection.request runs it on a connection that  *)
(* is closed: on success the connection holds a socket and is open.        *)
(***************************************************************************)
Connect(t, c) ==
    /\ leases[t][c] > 0
    /\ conns[c].closed
    /\ conns' = [conns EXCEPT ![c].closed = FALSE]
    /\ UNCHANGED <<pools, max_per_host, leases, issued, reused, evicted>>

\* The holder closes its connection (an exception, or Connection: close).
Close(t, c) ==
    /\ leases[t][c] > 0
    /\ ~conns[c].closed
    /\ conns' = ConnectionClose(conns, c)
    /\ UNCHANGED <<pools, max_per_host, leases, issued, reused, evicted>>

(***************************************************************************)
(* ConnectionPool.release: a closed connection is ignored, a connection    *)
(* whose bucket is full is closed, any other is appended to its bucket.    *)
(***************************************************************************)
\* release with the bound compared by > where the code has >=.
ReleaseOffByOne(bucket, c, limit) ==
    IF conns[c].closed THEN "ignore"
    ELSE IF Len(bucket) > limit THEN "close"
    ELSE "append"

ReleaseDecision(bucket, c, limit) ==
    IF conns[c].closed THEN "ignore"
    ELSE IF Len(bucket) >= limit THEN "close"
    ELSE "append"

Release(t, c) ==
    LET key == PoolKey(conns[c].scheme, conns[c].host, conns[c].port)
        what == ReleaseDecision(pools[key], c, max_per_host)
    IN /\ leases[t][c] > 0
       /\ leases' = [leases EXCEPT ![t][c] = @ - 1]
       /\ CASE what = "ignore" -> UNCHANGED <<conns, pools, evicted>>
            [] what = "close" -> /\ conns' = ConnectionClose(conns, c)
                                 /\ evicted' = evicted \cup {c}
                                 /\ UNCHANGED pools
            [] what = "append" -> /\ pools' = [pools EXCEPT ![key] = Append(@, c)]
                                  /\ UNCHANGED <<conns, evicted>>
       /\ UNCHANGED <<max_per_host, issued, reused>>

RECURSIVE CloseAll(_, _)
CloseAll(cs, ids) ==
    IF ids = {} THEN cs
    ELSE LET c == CHOOSE x \in ids : TRUE
         IN CloseAll(ConnectionClose(cs, c), ids \ {c})

Range(s) == { s[i] : i \in 1..Len(s) }

\* ConnectionPool.close: close every idle connection and clear the map.
PoolClose ==
    /\ \E key \in PoolKeys : pools[key] # <<>>
    /\ conns' = CloseAll(conns, UNION { Range(pools[key]) : key \in PoolKeys })
    /\ pools' = [key \in PoolKeys |-> <<>>]
    /\ UNCHANGED <<max_per_host, leases, issued, reused, evicted>>

PoolInit ==
    /\ conns = <<>>
    /\ pools = [key \in PoolKeys |-> <<>>]
    /\ max_per_host \in 1..MaxPerHost
    /\ leases = [t \in Callers |-> <<>>]
    /\ issued = <<>>
    /\ reused = {}
    /\ evicted = {}

(***************************************************************************)
(* TokenBucket and AsyncTokenBucket (the two classes have the same body;   *)
(* each with-block on the lock is one atomic step).                        *)
(***************************************************************************)
Min(a, b) == IF a <= b THEN a ELSE b

\* _refill: tokens = min(capacity, tokens + elapsed * rate).
Refill(tok, last, t) == Min(capacity, tok + (t - last) * rate)

Grant(t, n) == [granted EXCEPT ![t] = @ + n]

\* A caller that is in no time.sleep of acquire.
Awake == [n |-> 0, need |-> 0, since |-> 0]

\* acquire(n), the first block under the lock: refill, then take the tokens,
\* or raise RateLimitExceeded (non-blocking), or compute wait_time and leave
\* the lock to sleep.
BucketAcquire(t, n) ==
    LET tok == Refill(tokens, last_update, now)
    IN /\ sleepers[t] = Awake
       /\ last_update' = now
       /\ after_refill' = tok
       /\ IF tok >= n
          THEN /\ tokens' = tok - n
               /\ granted' = Grant(now, n)
               /\ UNCHANGED sleepers
          ELSE /\ tokens' = tok
               /\ UNCHANGED granted
               /\ IF ~blocking
                  THEN UNCHANGED sleepers
                  ELSE sleepers' = [sleepers EXCEPT ![t] =
                                      [n |-> n, need |-> n - tok, since |-> now]]
       /\ UNCHANGED <<now, rate, capacity, blocking>>

\* time.sleep(wait_time) is over once wait_time = need / rate has passed;
\* then the second block under the lock: refill and subtract.
BucketWake(t) ==
    LET tok == Refill(tokens, last_update, now)
    IN /\ sleepers[t] # Awake
       /\ (now - sleepers[t].since) * rate >= sleepers[t].need
       /\ last_update' = now
       /\ after_refill' = tok
       /\ tokens' = tok - sleepers[t].n
       /\ granted' = Grant(now, sleepers[t].n)
       /\ sleepers' = [sleepers EXCEPT ![t] = Awake]
       /\ UNCHANGED <<now, rate, capacity, blocking>>

Tick ==
    /\ now < MaxTime
    /\ now' = now + 1
    /\ UNCHANGED <<rate, capacity, blocking, tokens, last_update, after_refill,
                   sleepers, granted>>

\* TokenBucket.__init__ with the given configuration, at time 0.
BucketInit(r, c, b) ==
    /\ now = 0
    /\ rate = r
    /\ capacity = c
    /\ blocking = b
    /\ tokens = c
    /\ last_update = 0
    /\ after_refill = c
    /\ sleepers = [t \in Callers |-> Awake]
    /\ granted = [t \in 0..MaxTime |-> 0]

(***************************************************************************)
(* The retry controller (backoff.py) around the request function, as       *)
(* Client.request and AsyncClient.request use it.                          *)
(***************************************************************************)
\* What one execution of _make_request ends with: a response with a status
\* code, or an exception of a class.
Response(status) == [exc |-> "None", status |-> status]
Raises(class) == [exc |-> class, status |-> 0]

\* The classes an exception is an instance of.  ConnectionError of
\* gakido/errors.py derives from GakidoError; the built-in ConnectionError
\* and TimeoutError derive from OSError.
Bases(class) ==
    CASE class = "gakido.errors.ConnectionError" ->
            {"gakido.errors.ConnectionError", "GakidoError", "Exception"}
      [] class = "gakido.errors.ProtocolError" ->
            {"gakido.errors.ProtocolError", "GakidoError", "Exception"}
      [] class = "ConnectionRefusedError" ->
            {"ConnectionRefusedError", "ConnectionError", "OSError", "Exception"}
      [] class = "TimeoutError" -> {"TimeoutError", "OSError", "Exception"}
      [] OTHER -> {class, "Exception"}

\* _default_retryable_status_codes.
RetryableStatusCodes == {408, 429, 500, 502, 503, 504, 507, 511}

\* _default_retryable_exceptions: the names are the built-in classes.
RetryableExceptions == {"ConnectionError", "TimeoutError", "OSError"}

\* any(isinstance(e, exc_type) for exc_type in retryable_exceptions)
IsRetryable(class) == Bases(class) \cap RetryableExceptions # {}

\* The endings of _make_request the model draws from.  Client._make_request
\* calls ConnectionPool.acquire with a proxy_url keyword the pool's acquire
\* does not take, which is a TypeError before anything is opened; the other
\* endings are those of a _make_request that gets its connection.  The
\* blocking Connection wraps a failed socket connect in the ConnectionError
\* of gakido/errors.py; the cooperative client lets the OSError of
\* asyncio.open_connection through and raises ProtocolError itself.
Outcomes(k) ==
    {Response(200), Response(503)}
    \cup (IF k = "Client"
          THEN {Raises("TypeError"), Raises("TimeoutError"),
                Raises("gakido.errors.ConnectionError")}
          ELSE {Raises("ConnectionRefusedError"),
                Raises("gakido.errors.ProtocolError")})

\* 1 if an execution with this ending got as far as opening a connection.
Dials(out) == IF out = Raises("TypeError") THEN 0 ELSE 1

\* max_attempts without the + 1 for the initial attempt.
NoExtraAttempt(m) == m

\* Client.request: max_attempts = self.max_retries + 1.
MaxAttempts(m) == m + 1

NoExc == [class |-> "None", at |-> 0]

\* last_exc after a retryable failure of call number n: the exception
\* caught, or the RetryError the wrapper makes for a retryable status.
LastExc(last, out, n) ==
    [class |-> IF out.exc = "None" THEN "RetryError" ELSE out.exc, at |-> n]

\* No request in progress.  script is what _make_request does on its first,
\* second, ... execution; calls counts its executions, acquired the rate
\* limiter acquisitions, dialed the executions that reached the network.
NoRequest ==
    [pc |-> "idle", script |-> <<>>, attempt |-> 0, last_exc |-> NoExc,
     calls |-> 0, acquired |-> 0, dialed |-> 0,
     result |-> "None", value |-> Raises("None"), cause |-> NoExc]

\* The thread (or task) that runs the requests.
Me == "t1"

Returned(r, out) == [r EXCEPT !.pc = "returned", !.result = "return", !.value = out]

Raised(r, out, cause) ==
    [r EXCEPT !.pc = "raised", !.result = "raise", !.value = out, !.cause = cause]

\* request() with the retry wrapper never applied.
DispatchDirect(r) == [r EXCEPT !.pc = "direct"]

\* request(), past the rate limiting: without retries _make_request is
\* called directly, else inside the wrapper, which starts with attempt = 0
\* and last_exc = None.
Dispatch(r) ==
    IF max_retries <= 0 THEN [r EXCEPT !.pc = "direct"]
    ELSE [r EXCEPT !.pc = "call", !.attempt = 0, !.last_exc = NoExc]

\* A caller calls request(); what the network will do on each of the
\* executions the client can make (max_retries + 1 at most) is drawn here.
StartRequest ==
    /\ req.pc \in {"idle", "returned", "raised"}
    /\ \E sc \in [1..(max_retries + 1) -> Outcomes(kind)] :
          req' = [NoRequest EXCEPT !.pc = "entered", !.script = sc]
    /\ UNCHANGED <<kind, max_retries, rate_limit, bucketVars>>

\* Client.request: nothing precedes the dispatch on max_retries.
EnterClient ==
    /\ req.pc = "entered"
    /\ kind = "Client"
    /\ req' = Dispatch(req)
    /\ UNCHANGED <<kind, max_retries, rate_limit, bucketVars>>

\* AsyncClient.request: if a rate limiter is configured, acquire from it,
\* once, before the dispatch on max_retries.
EnterAsync ==
    /\ req.pc = "entered"
    /\ kind = "AsyncClient"
    /\ IF ~rate_limit
       THEN /\ req' = Dispatch(req)
            /\ UNCHANGED bucketVars
       ELSE /\ BucketAcquire(Me, 1)
            /\ req' = IF Refill(tokens, last_update, now) >= 1
                      THEN Dispatch([req EXCEPT !.acquired = @ + 1])
                      ELSE IF blocking THEN [req EXCEPT !.pc = "limit_sleep"]
                      ELSE Raised(req, Raises("RateLimitExceeded"), NoExc)
    /\ UNCHANGED <<kind, max_retries, rate_limit>>

\* The blocking acquire of the rate limiter returns after its sleep.
AsyncLimitWake ==
    /\ req.pc = "limit_sleep"
    /\ BucketWake(Me)
    /\ req' = Dispatch([req EXCEPT !.acquired = @ + 1])
    /\ UNCHANGED <<kind, max_retries, rate_limit>>

\* max_retries <= 0: one execution of _make_request, its result or its
\* exception handed to the caller as it is.
DirectCall ==
    LET out == req.script[1]
        r == [req EXCEPT !.calls = @ + 1, !.dialed = @ + Dials(out)]
    IN /\ req.pc = "direct"
       /\ req' = IF out.exc = "None" THEN Returned(r, out) ELSE Raised(r, out, NoExc)
       /\ UNCHANGED <<kind, max_retries, rate_limit, bucketVars>>

\* One round of the wrapper's while loop: execute the function; return its
\* result unless the status is retryable; re-raise an exception that is not
\* retryable; else note last_exc, count the attempt and either break and
\* raise RetryError from last_exc or go to sleep.
WrapperCall ==
    LET n == req.calls + 1
        out == req.script[n]
        r == [req EXCEPT !.calls = n, !.dialed = @ + Dials(out)]
        retry == IF out.exc = "None" THEN out.status \in RetryableStatusCodes
                 ELSE IsRetryable(out.exc)
        last == LastExc(req.last_exc, out, n)
    IN /\ req.pc = "call"
       /\ req' = IF req.attempt >= MaxAttempts(max_retries)
                 THEN Raised(req, Raises("RetryError"), req.last_exc)
                 ELSE IF ~retry
                 THEN (IF out.exc = "None" THEN Returned(r, out)
                       ELSE Raised(r, out, NoExc))
                 ELSE IF req.attempt + 1 >= MaxAttempts(max_retries)
                 THEN Raised([r EXCEPT !.attempt = @ + 1, !.last_exc = last],
                             Raises("RetryError"), last)
                 ELSE [r EXCEPT !.pc = "backoff", !.attempt = @ + 1,
                                !.last_exc = last]
       /\ UNCHANGED <<kind, max_retries, rate_limit, bucketVars>>

\* time.sleep(delay) of the wrapper returns.
BackoffWake ==
    /\ req.pc = "backoff"
    /\ req' = [req EXCEPT !.pc = "call"]
    /\ UNCHANGED <<kind, max_retries, rate_limit, bucketVars>>

\* A client of the given kind and configuration, no request made yet.
ClientInit(k, m, rl) ==
    /\ kind = k
    /\ max_retries = m
    /\ rate_limit = rl
    /\ req = NoRequest

(***************************************************************************)
(* HTTP/3 with fallback: AsyncClient._make_request and _request_h3         *)
(* (aio.py).  Each await is a point where another task of the client runs. *)
(***************************************************************************)
Hosts == {"a.test", "b.test"}

\* The ways _request_h3 ends: a response, an exception of proto.connect()
\* or an exception of proto.request().
H3Endings == {"ok", "connect_failed", "request_failed"}

H3Failures == {"connect_failed", "request_failed"}

\* No _make_request call made yet.  h3 and tcp are how the HTTP/3 and the
\* TCP attempt of the call ended ("none" when not made); demoted tells
\* whether the host had been in _h3_failed_hosts before the call started.
NoH3Request ==
    [pc |-> "idle", host |-> None, use_http3 |-> FALSE, demoted |-> FALSE,
     h3 |-> "none", tcp |-> "none", result |-> "none", error |-> "none"]

\* use_http3 as _make_request computes it; force_http3 is "True", "False"
\* or None, proxied is TRUE when the call has a proxy argument or the client
\* a proxy pool.
UseHttp3(force_http3, scheme, proxied, host) ==
    /\ (IF force_http3 # None THEN force_http3 = "True" ELSE http3_enabled)
    /\ scheme = "https"
    /\ ~proxied
    /\ host \notin h3_failed_hosts

\* The except clause with the fallback taken whatever http3_fallback is.
AlwaysFallBack(fallback) == "fallback"

\* The except clause with the error raised whatever http3_fallback is.
AlwaysRaise(fallback) == "raise"

\* The except clause around _request_h3: re-raise without http3_fallback,
\* else mark the host and go on to TCP.
OnH3Failure(fallback) == IF ~fallback THEN "raise" ELSE "fallback"

\* A task calls _make_request: the code up to the first await.
H3MakeRequest(t, host, scheme, proxied, force_http3) ==
    LET use == UseHttp3(force_http3, scheme, proxied, host)
    IN /\ h3req[t].pc \in {"idle", "done"}
       /\ h3req' = [h3req EXCEPT ![t] =
                       [NoH3Request EXCEPT !.pc = IF use THEN "h3" ELSE "tcp",
                                           !.host = host,
                                           !.use_http3 = use,
                                           !.demoted = host \in ever_failed]]
       /\ UNCHANGED <<http3_enabled, http3_fallback, h3_failed_hosts,
                      h3_protocols, ever_failed>>

\* _request_h3 and the except clause around it.  A host with no cached
\* protocol is connected first, and cached when the connect succeeds; a
\* failed connect leaves nothing cached.
H3Request(t, ending) ==
    LET r == h3req[t]
        what == OnH3Failure(http3_fallback)
    IN /\ r.pc = "h3"
       /\ ending = "connect_failed" => r.host \notin h3_protocols
       /\ h3_protocols' = IF ending = "connect_failed" THEN h3_protocols
                          ELSE h3_protocols \cup {r.host}
       /\ IF ending = "ok"
          THEN /\ h3req' = [h3req EXCEPT ![t] =
                              [r EXCEPT !.pc = "done", !.h3 = ending,
                                        !.result = "h3_response"]]
               /\ UNCHANGED <<h3_failed_hosts, ever_failed>>
          ELSE IF what = "raise"
          THEN /\ h3req' = [h3req EXCEPT ![t] =
                              [r EXCEPT !.pc = "done", !.h3 = ending,
                                        !.result = "raise", !.error = ending]]
               /\ UNCHANGED <<h3_failed_hosts, ever_failed>>
          ELSE /\ h3req' = [h3req EXCEPT ![t] =
                              [r EXCEPT !.pc = "tcp", !.h3 = ending]]
               /\ h3_failed_hosts' = h3_failed_hosts \cup {r.host}
               /\ ever_failed' = ever_failed \cup h3_failed_hosts'
       /\ UNCHANGED <<http3_enabled, http3_fallback>>

\* The rest of _make_request: the request over TCP (HTTP/1.1 or HTTP/2),
\* whose response or exception is what the call ends with.
TcpRequest(t, ok) ==
    LET r == h3req[t]
    IN /\ r.pc = "tcp"
       /\ h3req' = [h3req EXCEPT ![t] =
                       IF ok THEN [r EXCEPT !.pc = "done", !.tcp = "ok",
                                            !.result = "tcp_response"]
                       ELSE [r EXCEPT !.pc = "done", !.tcp = "failed",
                                      !.result = "raise", !.error = "tcp_failed"]]
       /\ UNCHANGED <<http3_enabled, http3_fallback, h3_failed_hosts,
                      h3_protocols, ever_failed>>

\* AsyncClient.close: closes the cached protocols, clears both collections.
H3Close ==
    /\ h3_protocols' = {}
    /\ h3_failed_hosts' = {}
    /\ UNCHANGED <<http3_enabled, http3_fallback, ever_failed, h3req>>

\* AsyncClient.__init__, for http3 (with aioquic there) and http3_fallback.
H3Init(enabled, fallback) ==
    /\ http3_enabled = enabled
    /\ http3_fallback = fallback
    /\ h3_failed_hosts = {}
    /\ h3_protocols = {}
    /\ ever_failed = {}
    /\ h3req = [t \in Callers |-> NoH3Request]

(***************************************************************************)
(* The request executor of the blocking client: Client._make_request from  *)
(* its pool.acquire on, Connection.request, Client.stream and              *)
(* Connection.stream (client.py, connection.py).                           *)
(***************************************************************************)
\* str.lower() on the header names and values of the model.
Lower(str) ==
    CASE str \in {"Connection", "connection", "CONNECTION"} -> "connection"
      [] str \in {"close", "Close", "CLOSE"} -> "close"
      [] str \in {"keep-alive", "Keep-Alive"} -> "keep-alive"
      [] str \in {"Set-Cookie", "set-cookie"} -> "set-cookie"
      [] str = "Server" -> "server"
      [] OTHER -> str

\* The raw header lists of the responses of the model.
CloseHeaders ==
    { <<<<"Connection", "close">>>>, <<<<"connection", "Close">>>>,
      <<<<"CONNECTION", "CLOSE">>>> }

ResponseHeaders ==
    CloseHeaders \cup { <<>>, <<<<"Connection", "Keep-Alive">>>> }

\* Response.headers.get(name, default): the headers property lowers the
\* names and lets the last of equal names win.
RECURSIVE HeaderGet(_, _, _)
HeaderGet(raw_headers, name, default) ==
    IF raw_headers = <<>> THEN default
    ELSE LET last == raw_headers[Len(raw_headers)]
         IN IF Lower(last[1]) = name THEN last[2]
            ELSE HeaderGet(SubSeq(raw_headers, 1, Len(raw_headers) - 1),
                           name, default)

\* The test of Connection.request with the value compared as it came.
CloseRequestedExact(raw_headers) ==
    HeaderGet(raw_headers, "connection", "") = "close"

\* Connection.request: response.headers.get("connection", "").lower() == "close".
CloseRequested(raw_headers) ==
    Lower(HeaderGet(raw_headers, "connection", "")) = "close"

\* The ways conn.request (or the native request) ends, other than with a
\* response: connect() raises, sendall raises, reading the response raises.
RequestErrors == {"connect_failed", "send_failed", "read_failed"}

NoExec == [pc |-> "idle", conn |-> 0, raised |-> FALSE]

\* The socket connect() of connection c opens.  The executor connects a
\* Connection only when it is new, so a Connection opens one socket at most
\* and the socket has the number of its Connection.
NewSocket(c) == c

\* No StreamingResponse made from a connection.
NoStream == [sock |-> 0, closed |-> TRUE]

\* The request keys the executor is run with: one https origin, which goes
\* through Connection.request, and one http origin, which the native
\* request takes when use_native is set.
ExecKeys == { k \in RequestKeys : k.proxy_url = None }

\* What _make_request does once the request has ended, with the except
\* clause left out: release whatever is still open.
AfterRequestNoExcept(raised, closed) ==
    IF ~closed THEN "release" ELSE "drop"

\* What _make_request does once the request has ended: on an exception
\* close the connection and re-raise; else release the connection unless it
\* is closed.
AfterRequest(raised, closed) ==
    IF raised THEN "close"
    ELSE IF ~closed THEN "release"
    ELSE "drop"

\* The hand-over of _read_streaming_response with self.closed left alone.
SurrenderOpen(cs, c) == cs

\* _read_streaming_response: self.sock = None; self.closed = True.
Surrender(cs, c) == [cs EXCEPT ![c].closed = TRUE]

\* The connections whose use has ended for good.
Spent == failed_conns \cup { p[1] : p \in close_conns } \cup stream_conns

\* conn = self.pool.acquire(...) in _make_request.
ExecAcquire(t, k) ==
    LET key == PoolKey(k.scheme, k.host, k.port)
        got == AcquireFrom(pools[key], conns)
        c == IF got[1] # 0 THEN got[1] ELSE Len(conns) + 1
    IN /\ exec[t].pc = "idle"
       /\ Acquire(t, k)
       /\ exec' = [exec EXCEPT ![t] = [NoExec EXCEPT !.pc = "acquired", !.conn = c]]
       /\ handed_again' = handed_again \cup ({c} \cap Spent)
       /\ UNCHANGED <<use_native, sock, streams, failed_conns,
                      close_conns, stream_conns>>

\* The try block of _make_request through gakido_core.request: the
\* connection acquired is not used.
ExecNative(t, ok) ==
    LET c == exec[t].conn
    IN /\ exec[t].pc = "acquired"
       /\ use_native /\ conns[c].scheme = "http" /\ conns[c].proxy_url = None
       /\ exec' = [exec EXCEPT ![t].pc = "ended", ![t].raised = ~ok]
       /\ failed_conns' = IF ok THEN failed_conns ELSE failed_conns \cup {c}
       /\ UNCHANGED <<poolVars, use_native, sock, streams, close_conns,
                      stream_conns, handed_again>>

\* conn.request(...) ending with an exception.  A failed connect leaves the
\* connection as it was made; a failed send closes it; a failed read of the
\* response leaves it open.
ExecRequestRaises(t, error) ==
    LET c == exec[t].conn
        connects == conns[c].closed \/ sock[c] = 0
    IN /\ exec[t].pc = "acquired"
       /\ ~(use_native /\ conns[c].scheme = "http" /\ conns[c].proxy_url = None)
       /\ error = "connect_failed" => connects
       /\ conns' = [conns EXCEPT ![c].closed = (error # "read_failed")]
       /\ sock' = [sock EXCEPT ![c] = IF error # "read_failed" THEN 0
                                      ELSE IF connects THEN NewSocket(c) ELSE @]
       /\ exec' = [exec EXCEPT ![t].pc = "ended", ![t].raised = TRUE]
       /\ failed_conns' = failed_conns \cup {c}
       /\ UNCHANGED <<pools, max_per_host, leases, issued, reused, evicted,
                      use_native, streams, close_conns, stream_conns, handed_again>>

\* conn.request(...) returning a response: connect first if the connection
\* is closed, then close it if the response asks for that.
ExecRequestReturns(t, raw_headers) ==
    LET c == exec[t].conn
        connects == conns[c].closed \/ sock[c] = 0
        closes == CloseRequested(raw_headers)
    IN /\ exec[t].pc = "acquired"
       /\ ~(use_native /\ conns[c].scheme = "http" /\ conns[c].proxy_url = None)
       /\ conns' = [conns EXCEPT ![c].closed = closes]
       /\ sock' = [sock EXCEPT ![c] = IF closes THEN 0
                                      ELSE IF connects THEN NewSocket(c) ELSE @]
       /\ exec' = [exec EXCEPT ![t].pc = "ended", ![t].raised = FALSE]
       /\ close_conns' = IF raw_headers \in CloseHeaders
                         THEN close_conns \cup {<<c, raw_headers>>}
                         ELSE close_conns
       /\ UNCHANGED <<pools, max_per_host, leases, issued, reused, evicted,
                      use_native, streams, failed_conns, stream_conns, handed_again>>

\* The end of _make_request: the except clause, or the release.
ExecFinish(t) ==
    LET c == exec[t].conn
        what == AfterRequest(exec[t].raised, conns[c].closed)
    IN /\ exec[t].pc = "ended"
       /\ exec' = [exec EXCEPT ![t] = NoExec]
       /\ CASE what = "close" ->
                 /\ conns' = ConnectionClose(conns, c)
                 /\ leases' = [leases EXCEPT ![t][c] = @ - 1]
                 /\ UNCHANGED <<pools, max_per_host, issued, reused, evicted>>
            [] what = "release" -> Release(t, c)
            [] what = "drop" ->
                 /\ leases' = [leases EXCEPT ![t][c] = @ - 1]
                 /\ UNCHANGED <<conns, pools, max_per_host, issued, reused, evicted>>
       /\ sock' = [sock EXCEPT ![c] = IF conns'[c].closed THEN 0 ELSE @]
       /\ UNCHANGED <<use_native, streams, failed_conns, close_conns,
                      stream_conns, handed_again>>

\* The ways conn.stream ends: one of the errors of a request, the refusal
\* of HTTP/2, or a StreamingResponse.
StreamEndings == RequestErrors \cup {"h2_refused", "streaming"}

\* Client.stream: make a Connection for the request key (proxy included),
\* outside the pool, and call conn.stream on it.  The connection is new, so
\* it connects first.  A failed connect or send leaves it closed, a failed
\* read or a negotiated h2 leaves it open, and a StreamingResponse takes
\* its socket.
ConnStream(t, k, ending) ==
    LET c == Len(conns) + 1
        made == Append(conns, [NewConnection(k.host, k.port, k.scheme)
                                 EXCEPT !.proxy_url = k.proxy_url])
        opened == [made EXCEPT ![c].closed = FALSE]
        keeps == ending \in {"read_failed", "h2_refused"}
    IN /\ Len(conns) < MaxConns
       /\ ending = "h2_refused" => k.scheme = "https"
       /\ conns' = IF keeps THEN opened
                   ELSE IF ending = "streaming" THEN Surrender(opened, c)
                   ELSE made
       /\ sock' = [sock EXCEPT ![c] = IF keeps THEN NewSocket(c) ELSE 0]
       /\ streams' = IF ending = "streaming"
                     THEN [streams EXCEPT ![c] = [sock |-> NewSocket(c),
                                                  closed |-> FALSE]]
                     ELSE streams
       /\ stream_conns' = IF ending = "streaming" THEN stream_conns \cup {c}
                          ELSE stream_conns
       /\ leases' = [t2 \in Callers |->
                       [c2 \in 1..c |-> IF c2 = c THEN (IF t2 = t THEN 1 ELSE 0)
                                        ELSE leases[t2][c2]]]
       /\ issued' = [c2 \in 1..c |-> IF c2 = c THEN {k} ELSE issued[c2]]
       /\ UNCHANGED <<pools, max_per_host, reused, evicted, use_native, exec,
                      failed_conns, close_conns, handed_again>>

\* The caller of conn.stream passes that Connection to pool.release.
ReleaseStreamed(t, c) ==
    /\ c \in stream_conns
    /\ exec[t].conn # c
    /\ Release(t, c)
    /\ sock' = [sock EXCEPT ![c] = IF conns'[c].closed THEN 0 ELSE @]
    /\ UNCHANGED <<use_native, streams, exec, failed_conns, close_conns,
                   stream_conns, handed_again>>

\* StreamingResponse.close: close the socket, once.
StreamClose(c) ==
    /\ ~streams[c].closed
    /\ streams' = [streams EXCEPT ![c].closed = TRUE]
    /\ UNCHANGED <<poolVars, use_native, sock, exec, failed_conns,
                   close_conns, stream_conns, handed_again>>

\* A client with an empty pool and nothing in progress.
ExecInit(native) ==
    /\ use_native = native
    /\ sock = [c \in 1..MaxConns |-> 0]
    /\ streams = [c \in 1..MaxConns |-> NoStream]
    /\ exec = [t \in Callers |-> NoExec]
    /\ failed_conns = {}
    /\ close_conns = {}
    /\ stream_conns = {}
    /\ handed_again = {}

(***************************************************************************)
(* The SOCKS5 handshake: socks5_handshake of socks5.py (blocking) and      *)
(* socks5_handshake_async of asyncio_socks5.py (cooperative).  Messages    *)
(* are sequences of bytes.                                                 *)
(***************************************************************************)
\* str.encode("utf-8") of the target hosts of the model.
Utf8(host) ==
    CASE host = "a.test" -> <<97, 46, 116, 101, 115, 116>>
      [] host = "b.test" -> <<98, 46, 116, 101, 115, 116>>

\* socket.inet_pton(AF_INET, address) of the address a host resolves to.
InetPton(host) ==
    CASE host = "a.test" -> <<10, 0, 0, 1>>
      [] host = "b.test" -> <<10, 0, 0, 2>>

\* struct.pack("!H", port).
PackPort(port) == <<port \div 256, port % 256>>

\* What getaddrinfo(host, port, family=AF_INET) does: a list with an IPv4
\* entry, an empty list, or gaierror.
Resolutions == {"ipv4", "empty", "gaierror"}

\* The greeting: VER, NMETHODS, METHODS.
Greeting(username) ==
    IF username # None THEN <<5, 2, 0, 2>> ELSE <<5, 1, 0>>

\* The username/password request of RFC 1929, for user "u", password "p".
AuthRequest == <<1, 1, 117, 1, 112>>

\* The method check with username/password taken whoever offered it.
MethodDecisionLax(method, username) ==
    IF method = 0 THEN "connect"
    ELSE IF method = 2 THEN "auth"
    ELSE "fail"

\* What _socks5_greeting does with the method the server selected.
MethodDecision(method, username) ==
    IF method = 0 THEN "connect"
    ELSE IF method = 2 THEN (IF username = None THEN "fail" ELSE "auth")
    ELSE "fail"

\* atyp and addr_bytes of _socks5_connect when the name is resolved here.
\* In socks5.py the lines that take the address out of infos are indented
\* under "if not infos:", after its raise, and never run; in
\* asyncio_socks5.py they follow the if.
ResolvedAddress(impl, host) ==
    IF impl = "blocking" THEN <<3, Utf8(host)>>
    ELSE <<1, InetPton(host)>>

\* The CONNECT request _socks5_connect builds.
ConnectRequest(impl, host, port, resolve_hostname) ==
    LET addr == IF resolve_hostname THEN <<3, Utf8(host)>>
                ELSE ResolvedAddress(impl, host)
    IN <<5, 1, 0, addr[1]>>
       \o (IF addr[1] = 3 THEN <<Len(addr[2])>> \o addr[2] ELSE addr[2])
       \o PackPort(port)

NoHandshake ==
    [pc |-> "idle", impl |-> None, scheme |-> None, username |-> None,
     host |-> None, port |-> 0, resolution |-> None, method |-> -1,
     sent |-> <<>>, error |-> FALSE]

Failed(h) == [h EXCEPT !.pc = "failed", !.error = TRUE]

\* _socks5_connect up to its read of the reply: resolve unless the proxy is
\* to resolve, then send the request.
SendConnect(h) ==
    LET resolve_hostname == h.scheme = "socks5h"
    IN IF ~resolve_hostname /\ h.resolution # "ipv4" THEN Failed(h)
       ELSE [h EXCEPT !.pc = "connect_sent",
                      !.sent = Append(@, ConnectRequest(h.impl, h.host, h.port,
                                                        resolve_hostname))]

\* socks5_handshake is called on a socket connected to the proxy: the
\* greeting goes out.
SocksGreet(impl, scheme, username, host, port, resolution) ==
    /\ socks5.pc \in {"idle", "done", "failed"}
    /\ socks5' = [NoHandshake EXCEPT !.pc = "greeting_sent", !.impl = impl,
                     !.scheme = scheme, !.username = username, !.host = host,
                     !.port = port, !.resolution = resolution,
                     !.sent = <<Greeting(username)>>]

\* The two bytes of the method reply arrive.
SocksMethodReply(ver, method) ==
    LET h == [socks5 EXCEPT !.method = method]
        what == MethodDecision(method, h.username)
    IN /\ socks5.pc = "greeting_sent"
       /\ socks5' = IF ver # 5 THEN Failed(h)
                    ELSE IF what = "connect" THEN SendConnect(h)
                    ELSE IF what = "auth"
                    THEN [h EXCEPT !.pc = "auth_sent", !.sent = Append(@, AuthRequest)]
                    ELSE Failed(h)

\* The two bytes of the username/password reply arrive.
SocksAuthReply(ver, status) ==
    /\ socks5.pc = "auth_sent"
    /\ socks5' = IF ver # 1 \/ status # 0 THEN Failed(socks5)
                 ELSE SendConnect(socks5)

\* The reply to CONNECT arrives.
SocksConnectReply(ver, rep) ==
    /\ socks5.pc = "connect_sent"
    /\ socks5' = IF ver # 5 \/ rep # 0 THEN Failed(socks5)
                 ELSE [socks5 EXCEPT !.pc = "done"]

SocksInit == socks5 = NoHandshake

(***************************************************************************)
(* Connection.connect (connection.py): TCP, the SOCKS5 handshake, TLS with *)
(* one retry.                                                              *)
(***************************************************************************)
\* The ways context.wrap_socket ends: a TLS socket, ssl.SSLError, or an
\* OSError that is no SSLError (a timeout, a reset).
HandshakeEndings == {"ok", "ssl_error", "os_error"}

\* A Connection as __init__ leaves it, no connect() called.  raws are the
\* sockets _open_tcp has returned to the call, each "open" or "closed";
\* handshakes are the wrap_socket calls of the call, each with the context
\* it used ("profile": the default context with the profile's ciphers, ALPN
\* and curves set, "default": a default context with nothing set), the
\* socket it ran on and how it ended; socksed are the sockets on which
\* socks5_handshake has returned, that is, whose CONNECT was answered with
\* REP = 0.
NewTls ==
    [pc |-> "idle", scheme |-> None, socks_proxy |-> FALSE,
     raws |-> <<>>, handshakes |-> <<>>, socksed |-> {},
     closed |-> TRUE, sock |-> 0, error |-> None]

\* The except clause of a failed handshake with raw.close() left out.
KeepRaw(raws) == raws

\* raw.close() on the socket the failed handshake ran on.
CloseRaw(raws) == [raws EXCEPT ![Len(raws)] = "closed"]

TlsRaise(c, class) == [c EXCEPT !.pc = "raised", !.error = class]

\* self.sock = ...; self.closed = False.
TlsConnected(c) == [c EXCEPT !.pc = "open", !.sock = Len(c.raws), !.closed = FALSE]

\* The Connection objects connect() is followed on; each call runs in the
\* thread of its caller.
TlsConns == {"c1", "c2"}

\* connect() is called on the closed Connection x.
TlsConnect(x, scheme, socks_proxy) ==
    /\ tls[x].pc \in {"idle", "raised"}
    /\ tls' = [tls EXCEPT ![x] = [NewTls EXCEPT !.pc = "dial", !.scheme = scheme,
                                                !.socks_proxy = socks_proxy]]

\* raw = self._open_tcp(), the first time and after a failed handshake.
TlsOpenTcp(x, ok) ==
    LET c == [tls[x] EXCEPT !.raws = Append(@, "open")]
    IN /\ tls[x].pc \in {"dial", "redial"}
       /\ tls' = [tls EXCEPT ![x] =
                    IF ~ok THEN TlsRaise(tls[x], "ConnectionError")
                    ELSE IF tls[x].pc = "redial" THEN [c EXCEPT !.pc = "handshake2"]
                    ELSE IF tls[x].socks_proxy THEN [c EXCEPT !.pc = "socks"]
                    ELSE IF tls[x].scheme = "https" THEN [c EXCEPT !.pc = "handshake"]
                    ELSE TlsConnected(c)]

\* socks5_handshake(raw, ...) on the first socket.
TlsSocks(x, ok) ==
    LET c == [tls[x] EXCEPT !.socksed = @ \cup {Len(tls[x].raws)}]
    IN /\ tls[x].pc = "socks"
       /\ tls' = [tls EXCEPT ![x] =
                    IF ~ok THEN TlsRaise(tls[x], "SocksError")
                    ELSE IF tls[x].scheme = "https" THEN [c EXCEPT !.pc = "handshake"]
                    ELSE TlsConnected(c)]

\* context.wrap_socket(raw, ...) with the context made from the profile;
\* on ssl.SSLError the socket is closed and TCP dialled again.
TlsHandshake(x, ending) ==
    LET c == [tls[x] EXCEPT !.handshakes =
                 Append(@, [context |-> "profile", raw |-> Len(tls[x].raws),
                            ending |-> ending])]
    IN /\ tls[x].pc = "handshake"
       /\ tls' = [tls EXCEPT ![x] =
                    CASE ending = "ok" -> TlsConnected(c)
                      [] ending = "ssl_error" ->
                           [c EXCEPT !.pc = "redial", !.raws = CloseRaw(@)]
                      [] ending = "os_error" -> TlsRaise(c, "OSError")]

\* fallback_ctx.wrap_socket(raw, ...) on the second socket; on ssl.SSLError
\* the socket is closed and TLSNegotiationError raised.
TlsHandshake2(x, ending) ==
    LET c == [tls[x] EXCEPT !.handshakes =
                 Append(@, [context |-> "default", raw |-> Len(tls[x].raws),
                            ending |-> ending])]
    IN /\ tls[x].pc = "handshake2"
       /\ tls' = [tls EXCEPT ![x] =
                    CASE ending = "ok" -> TlsConnected(c)
                      [] ending = "ssl_error" ->
                           TlsRaise([c EXCEPT !.raws = CloseRaw(@)],
                                    "TLSNegotiationError")
                      [] ending = "os_error" -> TlsRaise(c, "OSError")]

\* Connection.close() on the connected Connection.
TlsClose(x) ==
    /\ tls[x].pc = "open"
    /\ tls' = [tls EXCEPT ![x] =
                 [tls[x] EXCEPT !.pc = "idle", !.closed = TRUE, !.sock = 0,
                                !.raws[tls[x].sock] = "closed"]]

TlsInit == tls = [x \in TlsConns |-> NewTls]

(***************************************************************************)
(* The read loop of the HTTP/2 transports: HTTP2Connection.request         *)
(* (http2.py, "blocking") and AsyncClient._request_h2 (aio.py,             *)
(* "cooperative").                                                         *)
(***************************************************************************)
H2Transports == {"blocking", "cooperative"}

\* The header lists of the ResponseReceived events of the model: none, the
\* status alone, the status and one more field.
H2HeaderLists ==
    { <<>>, <<<<":status", 200>>>>, <<<<":status", 200>>, <<"server", 1>>>> }

\* The h2 events of one receive_data call.
H2Events ==
    [type : {"ResponseReceived"}, headers : H2HeaderLists]
    \cup { [type |-> "DataReceived", headers |-> <<>>],
           [type |-> "StreamEnded", headers |-> <<>>],
           [type |-> "StreamReset", headers |-> <<>>] }

\* What one socket read brings: no event (frames of the connection only),
\* one event, or DATA with the end of the stream.
H2Batches ==
    { <<>> } \cup { <<e>> : e \in H2Events }
    \cup { <<[type |-> "DataReceived", headers |-> <<>>],
             [type |-> "StreamEnded", headers |-> <<>>]>> }

\* The header fields whose name does not start with ":".
RECURSIVE NoPseudo(_)
NoPseudo(headers) ==
    IF headers = <<>> THEN <<>>
    ELSE (IF headers[1][1] = ":status" THEN <<>> ELSE <<headers[1]>>)
         \o NoPseudo(Tail(headers))

\* The locals of the read loop before the first read, and no result.
NewH2 ==
    [pc |-> "idle", status |-> 0, reason |-> "", resp_headers |-> <<>>,
     resp_body |-> 0, result |-> None,
     response |-> [status |-> 0, reason |-> "", headers |-> <<>>, body |-> 0]]

H2Response(r, status, reason) ==
    [r EXCEPT !.pc = "done", !.result = "Response",
              !.response = [status |-> status, reason |-> reason,
                            headers |-> r.resp_headers, body |-> r.resp_body]]

H2Raise(r) == [r EXCEPT !.pc = "done", !.result = "ProtocolError"]

\* The for loop over the events of one read: it ends the request at
\* StreamEnded and at StreamReset.
RECURSIVE H2Process(_, _)
H2Process(r, events) ==
    IF events = <<>> THEN r
    ELSE LET e == events[1]
         IN CASE e.type = "ResponseReceived" ->
                   H2Process([r EXCEPT
                                !.status = IF e.headers # <<>> THEN e.headers[1][2]
                                           ELSE 0,
                                !.resp_headers = @ \o NoPseudo(e.headers)],
                             Tail(events))
              [] e.type = "DataReceived" ->
                   H2Process([r EXCEPT !.resp_body = @ + 1], Tail(events))
              [] e.type = "StreamEnded" -> H2Response(r, r.status, "OK")
              [] e.type = "StreamReset" -> H2Raise(r)

\* The socket read returns no data.  http2.py returns a Response when a
\* status, a header or body data was captured and breaks otherwise;
\* aio.py breaks; after the loop ProtocolError is raised.
H2OnClose(impl, r) ==
    IF impl = "blocking" /\ (r.status # 0 \/ r.resp_body # 0 \/ r.resp_headers # <<>>)
    THEN H2Response(r, r.status, r.reason)
    ELSE H2Raise(r)

H2Has(events, type) == \E i \in 1..Len(events) : events[i].type = type

\* request() is called: the request is sent, the locals are set.
H2Request(impl) ==
    /\ h2[impl].pc \in {"idle", "done", "closed_early"}
    /\ h2' = [h2 EXCEPT ![impl] = [NewH2 EXCEPT !.pc = "reading"]]

\* One round of the read loop with data.
H2Receive(impl, events) ==
    /\ h2[impl].pc = "reading"
    /\ H2Has(events, "DataReceived") => h2[impl].resp_body < MaxData
    /\ H2Has(events, "ResponseReceived") => Len(h2[impl].resp_headers) < MaxFields
    /\ h2' = [h2 EXCEPT ![impl] = H2Process(h2[impl], events)]

\* One round of the read loop at the end of the input.
H2Closed(impl) ==
    /\ h2[impl].pc = "reading"
    /\ h2' = [h2 EXCEPT ![impl] = [H2OnClose(impl, h2[impl]) EXCEPT !.pc = "closed_early"]]

H2Init == h2 = [impl \in H2Transports |-> NewH2]

(***************************************************************************)
(* Timeouts: the operations of one request that wait under the configured  *)
(* timeout, in Connection (connection.py) and in HTTP3Connection           *)
(* (http3.py), and what the call ends with when one of them runs out.      *)
(***************************************************************************)
\* How the body of an HTTP/1.1 response is delimited (_read_response).
Framings == {"content-length", "chunked", "until-close"}

\* The operations of a request over TCP, in order, and over HTTP/3.
TcpPhases(scheme) ==
    IF scheme = "https"
    THEN <<"connect", "handshake", "send", "head", "body">>
    ELSE <<"connect", "send", "head", "body">>
H3Phases == <<"h3_connect", "h3_wait">>

Phases(transport, scheme) ==
    IF transport = "h3" THEN H3Phases ELSE TcpPhases(scheme)

\* What the call ends with when the operation of the phase times out.
\* _open_tcp and the sendall of Connection.request wrap OSError in the
\* ConnectionError of gakido/errors.py; wrap_socket, _readline and
\* _read_exact let TimeoutError through; _read_until_close catches it and
\* the response is built from what was read; HTTP3Connection turns it into
\* ProtocolError.
OnTimeout(phase, framing) ==
    CASE phase \in {"connect", "send"} -> Raises("gakido.errors.ConnectionError")
      [] phase \in {"handshake", "head"} -> Raises("TimeoutError")
      [] phase = "body" ->
            IF framing = "until-close" THEN Response(200)
            ELSE Raises("TimeoutError")
      [] phase \in {"h3_connect", "h3_wait"} -> Raises("gakido.errors.ProtocolError")

NoTimedCall ==
    [pc |-> "idle", transport |-> None, scheme |-> None, framing |-> None,
     phases |-> <<>>, timed_out |-> None, result |-> Response(0)]

\* A request starts: over TCP for a scheme and a response framing, or over
\* HTTP/3.
TimedStart(t, transport, scheme, framing) ==
    /\ tmo[t].pc \in {"idle", "done"}
    /\ transport = "h3" => scheme = "https" /\ framing = "content-length"
    /\ tmo' = [tmo EXCEPT ![t] =
                 [NoTimedCall EXCEPT !.pc = "running", !.transport = transport,
                                     !.scheme = scheme, !.framing = framing,
                                     !.phases = Phases(transport, scheme)]]

\* The operation of the current phase completes in time.
TimedStep(t) ==
    /\ tmo[t].pc = "running"
    /\ tmo' = [tmo EXCEPT ![t] =
                 IF Len(tmo[t].phases) = 1
                 THEN [tmo[t] EXCEPT !.pc = "done", !.phases = <<>>,
                                     !.result = Response(200)]
                 ELSE [tmo[t] EXCEPT !.phases = Tail(tmo[t].phases)]]

\* The operation of the current phase exceeds the timeout.
TimedOut(t) ==
    /\ tmo[t].pc = "running"
    /\ tmo' = [tmo EXCEPT ![t] =
                 [tmo[t] EXCEPT
                    !.pc = "done", !.timed_out = Head(tmo[t].phases),
                    !.result = OnTimeout(Head(tmo[t].phases), tmo[t].framing)]]

TimeoutInit == tmo = [t \in Callers |-> NoTimedCall]

(***************************************************************************)
(* Session.request and AsyncSession.request (session.py, the two bodies    *)
(* are the same) with the CookieJar (cookies.py).                          *)
(***************************************************************************)
Urls == {"http://a.test/x", "http://a.test/y", "https://b.test/x"}

\* parse_url(url)[1]
HostOf(url) == IF url = "https://b.test/x" THEN "b.test" ELSE "a.test"

CookieNames == {"sid", "pref"}

\* The cookie values the server of a host sets; no two hosts set the same.
CookieValues(host) == IF host = "a.test" THEN {"a1", "a2"} ELSE {"b1"}

\* str.title() on the header names of the model.
Title(name) ==
    CASE name \in {"referer", "REFERER", "Referer"} -> "Referer"
      [] name \in {"cookie", "Cookie"} -> "Cookie"
      [] OTHER -> name

\* The headers argument of a call: a dict, as a set of <<name, value>>.
CallerHeaders ==
    { {}, {<<"referer", "http://c.test/">>}, {<<"REFERER", "http://c.test/">>},
      {<<"cookie", "x=1">>} }

HasHeader(hdrs, titled) == \E h \in hdrs : Title(h[1]) = titled

\* The raw_headers of the response of a host: at most one Set-Cookie line
\* (the name in either case), its value parsed into its morsel.
RawHeaders(host) ==
    { <<>>, <<<<"Server", "s">>>> }
    \cup { <<<<n, [key |-> k, value |-> v]>>>> :
             n \in {"Set-Cookie", "set-cookie"}, k \in CookieNames,
             v \in CookieValues(host) }

NoJar == [k \in CookieNames |-> None]

\* A jar that is not keyed by host: the cookies of every host.
CookieHeaderAnyHost(st, host) ==
    UNION { { <<k, st[h][k]>> : k \in {n \in CookieNames : st[h][n] # None} } :
            h \in DOMAIN st }

\* CookieJar.cookie_header: the name=value pairs stored for the host, none
\* if the host has no jar.
CookieHeader(st, host) ==
    { <<k, st[host][k]>> : k \in {n \in CookieNames : st[host][n] # None} }

\* CookieJar.set_from_headers
RECURSIVE SetFromHeaders(_, _, _)
SetFromHeaders(st, headers, host) ==
    IF headers = <<>> THEN st
    ELSE LET h == headers[1]
         IN SetFromHeaders(
                IF Lower(h[1]) # "set-cookie" THEN st
                ELSE [st EXCEPT ![host][h[2].key] = h[2].value],
                Tail(headers), host)

\* The Referer the session inserts, None if it inserts none.
AutoReferer(hdrs) ==
    IF auto_referer /\ last_url # None /\ ~HasHeader(hdrs, "Referer")
    THEN last_url ELSE None

\* The Cookie header the session inserts, {} if it inserts none.
AutoCookie(hdrs, host) ==
    IF CookieHeader(store, host) # {} /\ ~HasHeader(hdrs, "Cookie")
    THEN CookieHeader(store, host) ELSE {}

NoCall ==
    [n |-> 0, url |-> None, caller_headers |-> {}, referer |-> None,
     cookie |-> {}, returned |-> FALSE]

\* Session.request(method, url, headers) where client.request returns a
\* response with raw_headers.
SessionRequestReturns(url, hdrs, raw_headers) ==
    /\ call' = [n |-> 1, url |-> url, caller_headers |-> hdrs,
                referer |-> AutoReferer(hdrs),
                cookie |-> AutoCookie(hdrs, HostOf(url)), returned |-> TRUE]
    /\ prev_url' = call.url
    /\ store' = SetFromHeaders(store, raw_headers, HostOf(url))
    /\ last_url' = url
    /\ UNCHANGED auto_referer

\* Session.request(method, url, headers) where client.request raises: the
\* two statements after it do not run.
SessionRequestRaises(url, hdrs) ==
    /\ call' = [n |-> 1, url |-> url, caller_headers |-> hdrs,
                referer |-> AutoReferer(hdrs),
                cookie |-> AutoCookie(hdrs, HostOf(url)), returned |-> FALSE]
    /\ prev_url' = call.url
    /\ UNCHANGED <<store, last_url, auto_referer>>

SessionInit(auto) ==
    /\ auto_referer = auto
    /\ last_url = None
    /\ store = [h \in {HostOf(u) : u \in Urls} |-> NoJar]
    /\ call = NoCall
    /\ prev_url = None

(***************************************************************************)
(* canonicalize_headers (headers.py).  A str is a sequence of character    *)
(* codes: 0 is NUL, 10 LF, 13 CR, 58 ":", 65 and 66 "A" and "B", 97 "a",   *)
(* 118 "v".                                                                *)
(***************************************************************************)
\* The header names of the model: plain ones that differ in case only, and
\* ones with CR, LF and NUL in them, one of which is nothing else.
HeaderNames ==
    { <<65>>, <<97>>, <<66>>, <<65, 13>>, <<10, 97>>, <<0, 66>>, <<13, 10>> }

\* The header values of the model: plain, empty, and "v\r\nB:v".
HeaderValues == { <<118>>, <<>>, <<0>>, <<118, 13, 10, 66, 58, 118>> }

HeaderPairs == HeaderNames \X HeaderValues

\* default_headers: a list of pairs.
DefaultHeaders == { <<>> } \cup { <<p>> : p \in HeaderPairs }

\* user_headers: a dict in insertion order, its keys distinct; None or {}
\* is the empty one.
UserHeaders ==
    { <<>> } \cup { <<p>> : p \in HeaderPairs }
    \cup { pq \in HeaderPairs \X HeaderPairs : pq[1][1] # pq[2][1] }

\* order: a list of names.
Orders == { <<>>, <<<<65>>>>, <<<<98>>, <<97>>, <<66>>>> }

\* str.lower()
LowerText(text) ==
    [i \in DOMAIN text |-> IF text[i] \in 65..90 THEN text[i] + 32 ELSE text[i]]

\* A sanitizer that deletes nothing.
KeepText(text) == text

\* str.replace("\r", "").replace("\n", "").replace("\x00", "")
SanitizeText(text) ==
    LET NotCR(b) == b # 13
        NotLF(b) == b # 10
        NotNUL(b) == b # 0
    IN SelectSeq(SelectSeq(SelectSeq(text, NotCR), NotLF), NotNUL)

\* _sanitize_header
SanitizeHeader(pair) == <<SanitizeText(pair[1]), SanitizeText(pair[2])>>

\* merged[key] = item on a dict kept as the list of its <<key, item>> in
\* insertion order: a key that is there keeps its place.
DictSet(d, key, item) ==
    IF \E i \in DOMAIN d : d[i][1] = key
    THEN [i \in DOMAIN d |-> IF d[i][1] = key THEN <<key, item>> ELSE d[i]]
    ELSE Append(d, <<key, item>>)

\* The two loops that fill merged.
RECURSIVE MergeHeaders(_, _)
MergeHeaders(merged, pairs) ==
    IF pairs = <<>> THEN merged
    ELSE LET clean == SanitizeHeader(pairs[1])
         IN MergeHeaders(DictSet(merged, LowerText(clean[1]), clean),
                         Tail(pairs))

\* The loop over order: <<ordered, what is left of merged>>.
RECURSIVE OrderHeaders(_, _, _)
OrderHeaders(ordered, merged, order) ==
    IF order = <<>> THEN <<ordered, merged>>
    ELSE LET key == LowerText(order[1])
             IsKey(e) == e[1] = key
             NotKey(e) == e[1] # key
         IN IF \E i \in DOMAIN merged : merged[i][1] = key
            THEN OrderHeaders(Append(ordered, SelectSeq(merged, IsKey)[1][2]),
                              SelectSeq(merged, NotKey), Tail(order))
            ELSE OrderHeaders(ordered, merged, Tail(order))

canonicalize_headers(default_headers, user_headers, order) ==
    LET merged == MergeHeaders(MergeHeaders(<<>>, default_headers), user_headers)
        done == OrderHeaders(<<>>, merged, order)
    IN done[1] \o [i \in DOMAIN done[2] |-> done[2][i][2]]

\* The call is made on the arguments drawn at the start.
Canonicalize ==
    /\ hdr.pc = "args"
    /\ hdr' = [hdr EXCEPT !.pc = "returned",
                          !.result = canonicalize_headers(hdr.default_headers,
                                                          hdr.user_headers,
                                                          hdr.order)]

HeaderArgs(default_headers, user_headers, order) ==
    hdr = [pc |-> "args", default_headers |-> default_headers,
           user_headers |-> user_headers, order |-> order, result |-> <<>>]

HeaderInit == HeaderArgs(<<>>, <<>>, <<>>)

(***************************************************************************)
(* The profile registry (impersonation/profiles.py), the overlays          *)
(* (impersonation/ja3.py) and the profile resolution of Client.__init__    *)
(* and AsyncClient.__init__.  Dicts and lists are objects on a heap, so    *)
(* that two names for one object see each other's changes.                 *)
(***************************************************************************)
\* What a dict holds under a key: a reference to an object, or a str.
Ref(id) == [ref |-> id, val |-> None]
Val(s) == [ref |-> 0, val |-> s]

DictObject(fields) == [kind |-> "dict", fields |-> fields, items |-> <<>>]
ListObject(items) == [kind |-> "list", fields |-> <<>>, items |-> items]

\* The objects of PROFILES: edge_101 is built from the tls and http2 dicts
\* of chrome_120.
RegistryHeap ==
    << ListObject(<<"h2", "http/1.1">>),
       ListObject(<<"h2", "http/1.1">>),
       DictObject("alpn" :> Ref(1) @@ "ciphers" :> Val("chrome_120")),
       DictObject("alpn" :> Ref(2)),
       DictObject("tls" :> Ref(3) @@ "http2" :> Ref(4) @@ "headers" :> Val("chrome_120")),
       DictObject("tls" :> Ref(3) @@ "http2" :> Ref(4) @@ "headers" :> Val("edge_101")) >>

\* PROFILES after the aliases of ALIAS_MAP were materialized: an alias is
\* bound to the object of its target.
PROFILES ==
    "chrome_120" :> 5 @@ "chrome120" :> 5 @@ "edge_101" :> 6

\* The value of what v stands for, references followed.
StrValue(s) == [str |-> s]
ListValue(items) == [list |-> items]

RECURSIVE Resolve(_, _)
Resolve(h, v) ==
    IF v.ref = 0 THEN StrValue(v.val)
    ELSE IF h[v.ref].kind = "list" THEN ListValue(h[v.ref].items)
    ELSE [k \in DOMAIN h[v.ref].fields |-> Resolve(h, h[v.ref].fields[k])]

\* The objects reachable from those of ids.
RECURSIVE Reach(_, _)
Reach(h, ids) ==
    LET more == ids \cup { h[i].fields[k].ref :
                             <<i, k>> \in { ik \in ids \X {"tls", "http2", "alpn"} :
                                             /\ ik[2] \in DOMAIN h[ik[1]].fields
                                             /\ h[ik[1]].fields[ik[2]].ref # 0 } }
    IN IF more = ids THEN ids ELSE Reach(h, more)

\* A lookup that hands out the object of the registry itself.
NoCopy(h, root) == <<h, root>>

\* copy.deepcopy(root): every object reachable from root is made anew, the
\* references between the new objects as between the old.  The value is
\* <<the heap after, the new root>>.
DeepCopy(h, root) ==
    LET old == Reach(h, {root})
        Rank(o) == Cardinality({r \in old : r <= o})
        NewId(o) == Len(h) + Rank(o)
        Nth(i) == CHOOSE o \in old : Rank(o) = i
        Copy(o) ==
            [h[o] EXCEPT !.fields =
                [k \in DOMAIN h[o].fields |->
                    IF h[o].fields[k].ref = 0 THEN h[o].fields[k]
                    ELSE Ref(NewId(h[o].fields[k].ref))]]
    IN <<h \o [i \in 1..Cardinality(old) |-> Copy(Nth(i))], NewId(root)>>

\* get_profile(name)
get_profile(h, name) == DeepCopy(h, PROFILES[name])

\* d[key] = value on the dict object d.
SetItem(h, d, key, value) ==
    [h EXCEPT ![d].fields = (key :> value) @@ @]

\* d[key] = a list made now.
SetNewList(h, d, key, items) ==
    SetItem(Append(h, ListObject(items)), d, key, Ref(Len(h) + 1))

\* profile.setdefault(key, {}): <<the heap after, the dict under key>>.
SetDefault(h, d, key) ==
    IF key \in DOMAIN h[d].fields THEN <<h, h[d].fields[key].ref>>
    ELSE <<SetItem(Append(h, DictObject(<<>>)), d, key, Ref(Len(h) + 1)),
           Len(h) + 1>>

\* profile.setdefault("tls", {})["alpn"] = items, then the same on "http2".
SetAlpn(h, profile, items) ==
    LET t == SetDefault(h, profile, "tls")
        h1 == SetNewList(t[1], t[2], "alpn", items)
        u == SetDefault(h1, profile, "http2")
    IN SetNewList(u[1], u[2], "alpn", items)

\* The tls_configuration_options of the model: none, a ja3_str, and an
\* extra_fp with an ALPN list.
TlsOptions ==
    { [ja3_str |-> None, extra_fp_alpn |-> <<>>],
      [ja3_str |-> "771,4865", extra_fp_alpn |-> <<>>],
      [ja3_str |-> None, extra_fp_alpn |-> <<"h2">>] }

\* The ja3 dicts of the model: none, ciphers, an ALPN list.
Ja3Options ==
    { [ciphers |-> None, alpn |-> <<>>],
      [ciphers |-> "ja3", alpn |-> <<>>],
      [ciphers |-> None, alpn |-> <<"h2", "http/1.1">>] }

\* apply_tls_configuration_options(profile, tls_opts): the heap after.
apply_tls_configuration_options(h, profile, tls_opts) ==
    LET h1 == IF tls_opts.ja3_str # None
              THEN SetItem(h, profile, "ja3_str", Val(tls_opts.ja3_str))
              ELSE h
    IN IF tls_opts.extra_fp_alpn # <<>>
       THEN SetAlpn(SetItem(h1, profile, "extra_fp", Val("extra_fp")),
                    profile, tls_opts.extra_fp_alpn)
       ELSE h1

\* apply_ja3_overrides(profile, ja3): the heap after.
apply_ja3_overrides(h, profile, ja3) ==
    LET t == SetDefault(h, profile, "tls")
        h1 == IF ja3.ciphers # None
              THEN SetItem(t[1], t[2], "ciphers", Val(ja3.ciphers))
              ELSE t[1]
    IN IF ja3.alpn # <<>> THEN SetAlpn(h1, profile, ja3.alpn) ELSE h1

\* The first lines of Client.__init__ and AsyncClient.__init__: <<the heap
\* after, self.profile>>.  Client has no http3 argument.
ResolveProfile(h, cls, impersonate, force_http1, http3, tls_opts, ja3) ==
    LET p == get_profile(h, impersonate)
        ha == IF force_http1 /\ (cls = "Client" \/ ~http3)
              THEN SetAlpn(p[1], p[2], <<"http/1.1">>)
              ELSE p[1]
        hb == apply_tls_configuration_options(ha, p[2], tls_opts)
        hc == apply_ja3_overrides(hb, p[2], ja3)
    IN <<hc, p[2]>>

\* The get_profile calls and clients of one run so far.
Copies == Len(handles) + client_profile.n

\* TRUE if a caller changed an object it got from get_profile.
Mutated(handle) ==
    Resolve(heap, Ref(handle.ref)) # Resolve(RegistryHeap, Ref(PROFILES[handle.name]))

\* A caller calls get_profile(name) and keeps the result.
GetProfile(name) ==
    /\ Copies < MaxCopies
    /\ LET p == get_profile(heap, name)
       IN /\ heap' = p[1]
          /\ handles' = Append(handles,
                 [name |-> name, ref |-> p[2],
                  after_mutation |-> \E i \in DOMAIN handles : Mutated(handles[i])])
    /\ UNCHANGED client_profile

\* The caller does profile["tls"]["alpn"].append("spdy") on its result,
\* once.
MutateList(i) ==
    /\ i \in DOMAIN handles
    /\ LET alpn == heap[heap[handles[i].ref].fields["tls"].ref].fields["alpn"].ref
       IN /\ \A n \in DOMAIN heap[alpn].items : heap[alpn].items[n] # "spdy"
          /\ heap' = [heap EXCEPT ![alpn].items = Append(@, "spdy")]
    /\ UNCHANGED <<handles, client_profile>>

\* The caller does profile["http2"]["alpn"] = "none" on its result.
MutateDict(i) ==
    /\ i \in DOMAIN handles
    /\ heap[heap[handles[i].ref].fields["http2"].ref].fields["alpn"] # Val("none")
    /\ heap' = SetItem(heap, heap[handles[i].ref].fields["http2"].ref, "alpn",
                       Val("none"))
    /\ UNCHANGED <<handles, client_profile>>

\* Client(...) or AsyncClient(...) is constructed, the one client of the run.
NewClient(cls, impersonate, force_http1, http3, tls_opts, ja3) ==
    /\ Copies < MaxCopies
    /\ client_profile.n = 0
    /\ cls = "Client" => ~http3
    /\ LET p == ResolveProfile(heap, cls, impersonate, force_http1, http3,
                               tls_opts, ja3)
       IN /\ heap' = p[1]
          /\ client_profile' =
                 [n |-> 1, kind |-> cls, impersonate |-> impersonate,
                  force_http1 |-> force_http1, http3 |-> http3,
                  tls_opts |-> tls_opts, ja3 |-> ja3, profile |-> p[2]]
    /\ UNCHANGED handles

ProfileInit ==
    /\ heap = RegistryHeap
    /\ handles = <<>>
    /\ client_profile =
           [n |-> 0, kind |-> None, impersonate |-> None, force_http1 |-> FALSE,
            http3 |-> FALSE, tls_opts |-> [ja3_str |-> None, extra_fp_alpn |-> <<>>],
            ja3 |-> [ciphers |-> None, alpn |-> <<>>], profile |-> 0]

(***************************************************************************)
(* SlidingWindowLimiter and AsyncSlidingWindowLimiter (rate_limit.py; the  *)
(* two classes have the same body, each with-block on the lock is one      *)
(* atomic step).                                                           *)
(***************************************************************************)
\* A cleanup that also drops the timestamp that is exactly window_seconds
\* old.
CleanupInclusive(ts, at) ==
    SelectSeq(ts, LAMBDA stamp : stamp > at - window_seconds)

\* _cleanup(now): popleft while the oldest timestamp is before the cutoff.
\* The timestamps are in the order of the clock, so what stays is those
\* not before the cutoff.
Cleanup(ts, at) ==
    SelectSeq(ts, LAMBDA stamp : ~(stamp < at - window_seconds))

NotCalling == [pc |-> "idle", until |-> 0]

\* acquire(), one round of the loop under the lock: clean up, then append
\* now and return, or raise RateLimitExceeded (non-blocking), or compute
\* wait_time and leave the lock to sleep.
WindowAcquire(t) ==
    LET kept == Cleanup(timestamps, monotonic)
    IN /\ sw_calls[t].pc = "idle"
       /\ IF Len(kept) < max_requests
          THEN /\ timestamps' = Append(kept, monotonic)
               /\ sw_granted' = [sw_granted EXCEPT ![monotonic] = @ + 1]
               /\ sw_calls' = [sw_calls EXCEPT ![t] = NotCalling]
          ELSE /\ timestamps' = kept
               /\ UNCHANGED sw_granted
               /\ sw_calls' = [sw_calls EXCEPT ![t] =
                     IF ~sw_blocking THEN NotCalling
                     ELSE [pc |-> "sleeping",
                           until |-> kept[1] + window_seconds]]
       /\ UNCHANGED <<max_requests, window_seconds, sw_blocking, monotonic>>

\* time.sleep(max(0.001, wait_time)) returns: not before wait_time passed;
\* the caller is at the top of the loop again.
WindowWake(t) ==
    /\ sw_calls[t].pc = "sleeping"
    /\ monotonic >= sw_calls[t].until
    /\ sw_calls' = [sw_calls EXCEPT ![t] = NotCalling]
    /\ UNCHANGED <<max_requests, window_seconds, sw_blocking, timestamps,
                   monotonic, sw_granted>>

\* The clock advances.
WindowTick ==
    /\ monotonic < MaxTime
    /\ monotonic' = monotonic + 1
    /\ UNCHANGED <<max_requests, window_seconds, sw_blocking, timestamps,
                   sw_calls, sw_granted>>

\* SlidingWindowLimiter.__init__ with the given configuration, at time 0.
WindowInit(m, w, b) ==
    /\ max_requests = m
    /\ window_seconds = w
    /\ sw_blocking = b
    /\ timestamps = <<>>
    /\ monotonic = 0
    /\ sw_calls = [t \in Callers |-> NotCalling]
    /\ sw_granted = [at \in 0..MaxTime |-> 0]

(***************************************************************************)
(* The TCP path of AsyncClient._make_request and _request_h2 (aio.py) as   *)
(* the list of its awaits after asyncio.open_connection returned: at each  *)
(* of them the task can be cancelled or the awaited call can raise.        *)
(***************************************************************************)
\* The awaits between the opening of the socket and the request.
SetupAwaits(socks_proxy, scheme) ==
    IF ~socks_proxy THEN <<>>
    ELSE IF scheme = "https" THEN <<"socks5_handshake", "start_tls">>
    ELSE <<"socks5_handshake">>

\* The awaits of the request: HTTP/1.1, or HTTP/2 when ALPN selected h2.
\* writer.close() is called before wait_closed is awaited.
RequestAwaits(protocol) ==
    IF protocol = "h2" THEN <<"h2_drain", "h2_read", "wait_closed">>
    ELSE <<"drain", "readline", "read_body", "wait_closed">>

Awaits(socks_proxy, scheme, protocol) ==
    SetupAwaits(socks_proxy, scheme) \o RequestAwaits(protocol)

\* What a failure at an await is: the awaited call raised, or, in the read
\* loop of _request_h2, the stream was reset or the input ended.
AwaitFailures(point) ==
    IF point = "h2_read" THEN {"raised", "StreamReset", "closed_early"}
    ELSE {"raised"}

\* The writer after a failure at an await: _request_h2 closes it before it
\* raises for a reset stream; nothing else on the way of an exception
\* closes it.
WriterAfterFailure(writer, point, failure) ==
    IF point = "h2_read" /\ failure = "StreamReset" THEN "closed" ELSE writer

NoTask ==
    [pc |-> "idle", awaits |-> <<>>, writer |-> "none", ended |-> "none",
     at |-> "none"]

\* asyncio.open_connection returned: the task holds an open socket.
AioOpen(t, socks_proxy, scheme, protocol) ==
    /\ aio[t].pc \in {"idle", "done"}
    /\ protocol = "h2" => scheme = "https"
    /\ aio' = [aio EXCEPT ![t] =
                 [NoTask EXCEPT !.pc = "awaiting", !.writer = "open",
                                !.awaits = Awaits(socks_proxy, scheme, protocol)]]

\* The await the task is at completes.  Before the last one, wait_closed,
\* the code calls writer.close(); after it the response is returned.
AioResume(t) ==
    /\ aio[t].pc = "awaiting"
    /\ aio' = [aio EXCEPT ![t] =
                 IF Len(aio[t].awaits) = 1
                 THEN [aio[t] EXCEPT !.pc = "done", !.awaits = <<>>,
                                     !.ended = "returned"]
                 ELSE [aio[t] EXCEPT
                         !.awaits = Tail(aio[t].awaits),
                         !.writer = IF aio[t].awaits[2] = "wait_closed"
                                    THEN "closed" ELSE aio[t].writer]]

\* The await the task is at fails.  An exception of wait_closed is caught
\* and the response is returned.
AioFail(t, failure) ==
    /\ aio[t].pc = "awaiting"
    /\ failure \in AwaitFailures(Head(aio[t].awaits))
    /\ aio' = [aio EXCEPT ![t] =
                 IF Head(aio[t].awaits) = "wait_closed"
                 THEN [aio[t] EXCEPT !.pc = "done", !.awaits = <<>>,
                                     !.ended = "returned"]
                 ELSE [aio[t] EXCEPT
                         !.pc = "done", !.ended = "raised",
                         !.at = Head(aio[t].awaits),
                         !.writer = WriterAfterFailure(aio[t].writer,
                                                       Head(aio[t].awaits),
                                                       failure)]]

\* The task is cancelled at the await it is at: CancelledError is raised
\* there and no handler of the path catches it.
AioCancel(t) ==
    /\ aio[t].pc = "awaiting"
    /\ aio' = [aio EXCEPT ![t] =
                 [aio[t] EXCEPT !.pc = "done", !.ended = "cancelled",
                                !.at = Head(aio[t].awaits)]]

AioInit == aio = [t \in Callers |-> NoTask]

(***************************************************************************)
(* ConnectionPool.acquire and release (pool.py) called by several threads. *)
(* The pool takes no lock: a call is a sequence of steps, each one         *)
(* operation on a list (truth test, len, pop, append), and another thread  *)
(* can run between two steps.                                              *)
(***************************************************************************)
NoPoolCall ==
    [op |-> "none", step |-> "none", key |-> <<>>, req |-> None, conn |-> 0,
     raised |-> None]

\* acquire(scheme, host, port) is called.
RaceAcquireCall(t, k) ==
    /\ pool_pc[t].op = "none"
    /\ pool_pc' = [pool_pc EXCEPT ![t] =
          [NoPoolCall EXCEPT !.op = "acquire", !.step = "test",
                             !.key = PoolKey(k.scheme, k.host, k.port),
                             !.req = k]]
    /\ UNCHANGED poolVars

\* while self._pools[key]: the truth test of the list.
RaceAcquireTest(t) ==
    /\ pool_pc[t].op = "acquire" /\ pool_pc[t].step = "test"
    /\ pool_pc' = [pool_pc EXCEPT ![t].step =
          IF pools[pool_pc[t].key] # <<>> THEN "pop" ELSE "new"]
    /\ UNCHANGED poolVars

\* conn = self._pools[key].pop() and the test of conn.closed: IndexError if
\* the list is empty by now, the connection returned if it is open, the
\* loop again if it is closed.
RaceAcquirePop(t) ==
    LET key == pool_pc[t].key
        bucket == pools[key]
        conn == bucket[Len(bucket)]
    IN /\ pool_pc[t].op = "acquire" /\ pool_pc[t].step = "pop"
       /\ IF bucket = <<>>
          THEN /\ pool_pc' = [pool_pc EXCEPT ![t] =
                     [NoPoolCall EXCEPT !.raised = "IndexError"]]
               /\ UNCHANGED poolVars
          ELSE /\ pools' = [pools EXCEPT ![key] = SubSeq(bucket, 1, Len(bucket) - 1)]
               /\ IF ~conns[conn].closed
                  THEN /\ leases' = Lease(t, conn)
                       /\ issued' = [issued EXCEPT ![conn] = @ \cup {pool_pc[t].req}]
                       /\ reused' = reused \cup {conn}
                       /\ pool_pc' = [pool_pc EXCEPT ![t] = NoPoolCall]
                  ELSE /\ pool_pc' = [pool_pc EXCEPT ![t].step = "test"]
                       /\ UNCHANGED <<leases, issued, reused>>
               /\ UNCHANGED <<conns, max_per_host, evicted>>

\* return Connection(host, port, scheme, ...)
RaceAcquireNew(t) ==
    LET k == pool_pc[t].req
    IN /\ pool_pc[t].op = "acquire" /\ pool_pc[t].step = "new"
       /\ Len(conns) < MaxConns
       /\ conns' = Append(conns, NewConnection(k.host, k.port, k.scheme))
       /\ leases' = [t2 \in Callers |->
                       [c \in 1..(Len(conns) + 1) |->
                           IF c = Len(conns) + 1
                           THEN (IF t2 = t THEN 1 ELSE 0)
                           ELSE leases[t2][c]]]
       /\ issued' = [c \in 1..(Len(conns) + 1) |->
                       IF c = Len(conns) + 1 THEN {k} ELSE issued[c]]
       /\ pool_pc' = [pool_pc EXCEPT ![t] = NoPoolCall]
       /\ UNCHANGED <<pools, max_per_host, reused, evicted>>

\* release(conn) up to its tests: conn.closed, then len(bucket) against
\* max_per_host.  The thread gives up the connection with the call.
RaceReleaseCheck(t, c) ==
    LET key == PoolKey(conns[c].scheme, conns[c].host, conns[c].port)
        what == ReleaseDecision(pools[key], c, max_per_host)
    IN /\ pool_pc[t].op = "none"
       /\ leases[t][c] > 0
       /\ leases' = [leases EXCEPT ![t][c] = @ - 1]
       /\ pool_pc' = [pool_pc EXCEPT ![t] =
             IF what = "ignore" THEN NoPoolCall
             ELSE [NoPoolCall EXCEPT !.op = "release", !.step = what,
                                     !.key = key, !.conn = c]]
       /\ UNCHANGED <<conns, pools, max_per_host, issued, reused, evicted>>

\* release(conn) after its tests: conn.close(), or bucket.append(conn).
RaceReleaseAct(t) ==
    LET c == pool_pc[t].conn
    IN /\ pool_pc[t].op = "release"
       /\ IF pool_pc[t].step = "close"
          THEN /\ conns' = ConnectionClose(conns, c)
               /\ evicted' = evicted \cup {c}
               /\ UNCHANGED pools
          ELSE /\ pools' = [pools EXCEPT ![pool_pc[t].key] = Append(@, c)]
               /\ UNCHANGED <<conns, evicted>>
       /\ pool_pc' = [pool_pc EXCEPT ![t] = NoPoolCall]
       /\ UNCHANGED <<max_per_host, leases, issued, reused>>

\* The thread uses a connection it holds: Connection.request connects it.
RaceConnect(t, c) ==
    /\ pool_pc[t].op = "none"
    /\ Connect(t, c)
    /\ UNCHANGED pool_pc

RaceInit == pool_pc = [t \in Callers |-> NoPoolCall]

(***************************************************************************)
(* One Connection object and its sockets (connection.py): connect,         *)
(* request, stream and close as their callers see them, with what each     *)
(* writes to the socket, and Client.stream (client.py), which makes a      *)
(* Connection of its own.                                                  *)
(***************************************************************************)
\* Connection.__init__: sock = None (0), closed = True.
NewConnectionObject == [sock |-> 0, closed |-> TRUE, negotiated_protocol |-> None]

\* The ways connect() ends: _open_tcp raises ("refused"), or the socket is
\* kept, plain or with no protocol selected ("plain"), or as a TLS socket
\* with the ALPN protocol named.
ConnectEndings == {"refused", "plain", "http/1.1", "h2"}
\* The ways the read of a response ends in request(): a response, a
\* response with Connection: close, or a raise out of the reader.
ReadEndings == {"response", "close", "raise"}
\* The ways the read of the head ends in stream(): a head, no byte at all,
\* or a status or header line that does not parse.
HeadEndings == {"head", "empty", "malformed"}
\* The ways sock.close() ends.
CloseEndings == {"ok", "os_error"}

\* The state an operation works on and what it raised, if anything.
Wire(c, s, e) == [connection |-> c, sockets |-> s, error |-> e]

WriteTo(s, i, what) == [s EXCEPT ![i].written = Append(@, what)]

\* close(): if self.sock: try: self.sock.close() finally: self.sock = None;
\* then self.closed = True, which a raising sock.close() does not reach.
WireClose(w, ending) ==
    LET c == w.connection
    IN IF c.sock = 0
       THEN Wire([c EXCEPT !.closed = TRUE], w.sockets, None)
       ELSE IF ending = "os_error"
       THEN Wire([c EXCEPT !.sock = 0],
                 [w.sockets EXCEPT ![c.sock].state = "closed"], "OSError")
       ELSE Wire([c EXCEPT !.sock = 0, !.closed = TRUE],
                 [w.sockets EXCEPT ![c.sock].state = "closed"], None)

\* connect(): a socket from _open_tcp, wrapped for https; self.sock,
\* self.negotiated_protocol, self.closed = False.
WireConnect(w, ending) ==
    IF ending = "refused"
    THEN Wire(w.connection, w.sockets, "ConnectionError")
    ELSE LET alpn == IF ending = "plain" THEN None ELSE ending
         IN Wire([sock |-> Len(w.sockets) + 1, closed |-> FALSE,
                  negotiated_protocol |-> alpn],
                 Append(w.sockets, [state |-> "open", alpn |-> alpn,
                                    written |-> <<>>]),
                 None)

\* if self.closed or self.sock is None: self.connect()
EnsureConnected(w, ending) ==
    IF w.connection.closed \/ w.connection.sock = 0
    THEN WireConnect(w, ending)
    ELSE w

\* request_bytes = self._build_request(...); self.sock.sendall(request_bytes);
\* on OSError close() and raise ConnectionError.
SendRequestBytes(w, sent) ==
    IF sent
    THEN Wire(w.connection, WriteTo(w.sockets, w.connection.sock, "http1_request"), None)
    ELSE [WireClose(w, "ok") EXCEPT !.error = "ConnectionError"]

\* HTTP2Connection(self.sock): initiate_connection() and the preface and
\* SETTINGS sent; .request(): HEADERS (and DATA) of a new stream sent.
Http2Request(w) ==
    Wire(w.connection,
         WriteTo(WriteTo(w.sockets, w.connection.sock, "h2_preface"),
                 w.connection.sock, "h2_request"),
         None)

\* Connection.request.
WireRequest(w, connect_ending, sent, ending) ==
    LET wa == EnsureConnected(w, connect_ending)
        wb == SendRequestBytes(wa, sent)
        wc == IF wb.connection.negotiated_protocol = "h2" THEN Http2Request(wb) ELSE wb
    IN IF wa.error # None THEN wa
       ELSE IF wb.error # None THEN wb
       ELSE CASE ending = "raise" -> [wc EXCEPT !.error = "ProtocolError"]
              [] ending = "close" -> WireClose(wc, "ok")
              [] ending = "response" -> wc

\* _read_streaming_response: the head is read, and the socket handed to the
\* StreamingResponse: self.sock = None, self.closed = True.
ReadStreamingResponse(w, ending) ==
    IF ending = "head"
    THEN Wire([w.connection EXCEPT !.sock = 0, !.closed = TRUE], w.sockets, None)
    ELSE [w EXCEPT !.error = "ProtocolError"]

\* Connection.stream.
WireStream(w, connect_ending, sent, ending) ==
    LET wa == EnsureConnected(w, connect_ending)
        wb == SendRequestBytes(wa, sent)
    IN IF wa.error # None THEN wa
       ELSE IF wb.error # None THEN wb
       ELSE IF wb.connection.negotiated_protocol = "h2"
       THEN [wb EXCEPT !.error = "NotImplementedError"]
       ELSE ReadStreamingResponse(wb, ending)

\* Client.stream: conn = Connection(...); return conn.stream(...).
ClientStreamCall(w, connect_ending, sent, ending) ==
    WireStream(Wire(NewConnectionObject, w.sockets, None), connect_ending, sent, ending)

WireNow == Wire(connection, sockets, None)

\* The number of requests written to the socket the Connection holds.
RequestsOn(s, i) ==
    IF i = 0 THEN 0
    ELSE Cardinality({j \in 1..Len(s[i].written) : s[i].written[j] = "http1_request"})

\* The operation has run from w: the fields, and the record of the call
\* with the sockets dialled during it.
Ran(op, w) ==
    /\ Len(w.sockets) <= MaxSockets
    /\ RequestsOn(w.sockets, w.connection.sock) <= MaxRequests
    /\ connection' = w.connection
    /\ sockets' = w.sockets
    /\ last_call' = [op |-> op, error |-> w.error,
                     opened |-> (Len(sockets) + 1)..Len(w.sockets)]

DoConnect(connect_ending) == Ran("connect", WireConnect(WireNow, connect_ending))

DoRequest(connect_ending, sent, ending) ==
    Ran("request", WireRequest(WireNow, connect_ending, sent, ending))

DoStream(connect_ending, sent, ending) ==
    Ran("stream", WireStream(WireNow, connect_ending, sent, ending))

DoClose(ending) == Ran("close", WireClose(WireNow, ending))

DoClientStream(connect_ending, sent, ending) ==
    Ran("Client.stream", ClientStreamCall(WireNow, connect_ending, sent, ending))

WireInit ==
    /\ connection = NewConnectionObject
    /\ sockets = <<>>
    /\ last_call = [op |-> None, error |-> None, opened |-> {}]

(***************************************************************************)
(* The choice of body framing by the HTTP/1.1 readers: _read_response and  *)
(* _read_streaming_response (connection.py) and the reader of              *)
(* AsyncClient._make_request (aio.py).                                     *)
(***************************************************************************)
\* A Transfer-Encoding value is its codings in order, written "a, b"; the
\* empty list is the header absent (header_map.get(..., "")) or empty.
Codings == {"chunked", "Chunked", "gzip"}
TransferEncodings ==
    UNION {[1..n -> Codings] : n \in 0..MaxFields}
\* Content-Length: absent, a decimal number, or text int() rejects.
ContentLengths == {"absent", "number", "invalid"}

\* The framing a reader chose, and what it raised before reading a body.
Framed(framing, error) == [framing |-> framing, error |-> error]

\* The reader has not read the head.
NotRead == Framed(None, None)

LowerCoding(coding) == IF coding = "Chunked" THEN "chunked" ELSE coding

\* "chunked" in value.lower(): no coding but chunked holds the word, and the
\* separators do not, so the word is in the text when it is one of the
\* codings.
ContainsChunked(value) ==
    \E i \in 1..Len(value) : LowerCoding(value[i]) = "chunked"

\* value.lower().endswith("chunked")
EndsWithChunked(value) ==
    Len(value) > 0 /\ LowerCoding(value[Len(value)]) = "chunked"

\* Connection._read_response: chunked if "chunked" in transfer_encoding,
\* elif content-length (ValueError becomes ProtocolError), else until close.
BlockingFraming(te, cl) ==
    IF ContainsChunked(te) THEN Framed("chunked", None)
    ELSE IF cl # "absent"
    THEN Framed("content-length", IF cl = "invalid" THEN "ProtocolError" ELSE None)
    ELSE Framed("until-close", None)

\* AsyncClient._make_request: chunked if the value ends with chunked, elif
\* content-length (int() raising ValueError), else read(-1).
CooperativeFraming(te, cl) ==
    IF EndsWithChunked(te) THEN Framed("chunked", None)
    ELSE IF cl # "absent"
    THEN Framed("content-length", IF cl = "invalid" THEN "ValueError" ELSE None)
    ELSE Framed("until-close", None)

\* Connection._read_streaming_response: chunked = "chunked" in
\* transfer_encoding; a Content-Length that is no number is passed over and
\* the StreamingResponse, with no length, reads until close.
StreamingFraming(te, cl) ==
    IF ContainsChunked(te) THEN Framed("chunked", None)
    ELSE IF cl = "number" THEN Framed("content-length", None)
    ELSE Framed("until-close", None)

Readers == {"blocking", "cooperative", "streaming"}

\* The reader r has read the head and chosen how to read the body.
ReadBlocking ==
    /\ chosen["blocking"] = NotRead
    /\ chosen' = [chosen EXCEPT !["blocking"] = BlockingFraming(head.te, head.cl)]
    /\ UNCHANGED head

ReadCooperative ==
    /\ chosen["cooperative"] = NotRead
    /\ chosen' = [chosen EXCEPT !["cooperative"] = CooperativeFraming(head.te, head.cl)]
    /\ UNCHANGED head

ReadStreaming ==
    /\ chosen["streaming"] = NotRead
    /\ chosen' = [chosen EXCEPT !["streaming"] = StreamingFraming(head.te, head.cl)]
    /\ UNCHANGED head

FramingInit ==
    /\ head = [te |-> <<>>, cl |-> "absent"]
    /\ chosen = [r \in Readers |-> NotRead]

\* One response head, read by each reader.
FramingInputs ==
    /\ head \in [te : TransferEncodings, cl : ContentLengths]
    /\ chosen = [r \in Readers |-> NotRead]

(***************************************************************************)
(* The header list of an HTTP/1.1 request: canonicalize_headers and the    *)
(* Connection: keep-alive default of Client._make_request (client.py) and  *)
(* AsyncClient._make_request (aio.py).                                     *)
(***************************************************************************)
\* "Host", "Connection", "connection", "A" and the values "h", "keep-alive"
\* and "close" as character codes.
HostName == <<72, 111, 115, 116>>
ConnectionName == <<67, 111, 110, 110, 101, 99, 116, 105, 111, 110>>
ConnectionLower == <<99, 111, 110, 110, 101, 99, 116, 105, 111, 110>>
KeepAliveValue == <<107, 101, 101, 112, 45, 97, 108, 105, 118, 101>>
CloseValue == <<99, 108, 111, 115, 101>>

\* The headers of a profile: its default list and its order.
ProfileHeaders ==
    [default : { <<>>, << <<<<65>>, <<118>>>> >>,
                 << <<ConnectionName, KeepAliveValue>> >> },
     order : { <<>>, <<HostName, ConnectionName, <<65>>>>,
               <<HostName, <<65>>, ConnectionName>>, <<<<65>>, HostName>> }]

\* The headers argument of the caller.
CallerHeaderDicts ==
    { <<>>, << <<<<65>>, <<118>>>> >>, << <<ConnectionLower, CloseValue>> >> }

\* {**final_headers, **(headers or {})} with final_headers = {"Host": host}.
RequestHeaders(headers) == << <<HostName, <<104>>>> >> \o headers

\* list.insert(1, item): before the element at index 1, or at the end of a
\* shorter list.
InsertAt1(list, item) ==
    IF Len(list) <= 1 THEN Append(list, item)
    ELSE <<list[1], item>> \o Tail(list)

\* seen_conn = any(name.lower() == "connection" ...); if not seen_conn:
\* merged_headers.insert(1, ("Connection", "keep-alive"))
SeenConn(list) == \E i \in DOMAIN list : LowerText(list[i][1]) = ConnectionLower

EnsureKeepAlive(list) ==
    IF SeenConn(list) THEN list
    ELSE InsertAt1(list, <<ConnectionName, KeepAliveValue>>)

\* The header list Client._make_request hands to Connection.request.
ClientMergedHeaders(profile, headers) ==
    EnsureKeepAlive(canonicalize_headers(profile.default, RequestHeaders(headers),
                                         profile.order))

\* The header list AsyncClient._make_request writes on its HTTP/1.1 path.
AsyncClientMergedHeaders(profile, headers) ==
    canonicalize_headers(profile.default, RequestHeaders(headers), profile.order)

NotBuilt == [built |-> FALSE, list |-> <<>>]

BuildHeaders(cls) ==
    /\ ~merged_headers[cls].built
    /\ merged_headers' =
          [merged_headers EXCEPT ![cls] =
              [built |-> TRUE,
               list |-> IF cls = "Client"
                        THEN ClientMergedHeaders(merged_headers.profile,
                                                 merged_headers.headers)
                        ELSE AsyncClientMergedHeaders(merged_headers.profile,
                                                      merged_headers.headers)]]

KeepAliveArgs(profile, headers) ==
    merged_headers = [profile |-> profile, headers |-> headers,
                      Client |-> NotBuilt, AsyncClient |-> NotBuilt]

KeepAliveInit == KeepAliveArgs([default |-> <<>>, order |-> <<>>], <<>>)

\* One request of one profile, its header list built by each client.
KeepAliveInputs ==
    \E profile \in ProfileHeaders, headers \in CallerHeaderDicts :
        KeepAliveArgs(profile, headers)

(***************************************************************************)
(* StreamingResponse and AsyncStreamingResponse (streaming.py): close()    *)
(* and the generators of iter_bytes / aiter_bytes and iter_lines /         *)
(* aiter_lines over a body that arrives in chunks.                         *)
(***************************************************************************)
StreamingClasses == {"StreamingResponse", "AsyncStreamingResponse"}
IterIds == {"i1", "i2"}
IterKinds == {"bytes", "lines"}
\* What a read returns on a live socket: a chunk that holds one line, a
\* chunk that holds two, or b"" at the end of the body.
ReadOutcomes == {"one_line", "two_lines", "eof"}

\* No generator made for the id.
NoIter == [kind |-> None, pc |-> "none", pending |-> 0]

\* A read of the generators on the socket after close().  The blocking
\* socket is closed and recv raises OSError; the StreamReader of the
\* cooperative response still hands out what it had buffered, then b"".
ReadAfterClose(cls, outcome) ==
    IF cls = "StreamingResponse" THEN "OSError" ELSE outcome

\* The end of the line loop: a line is yielded out of pending, or a chunk
\* arrived: a bytes generator yields it, a lines generator splits it, yields
\* its first line and keeps the rest.
Yield(r, it, lines) ==
    [resp |-> [r EXCEPT !.yielded_after_close = @ \/ r.closed],
     iter |-> [it EXCEPT !.pc = "suspended",
                         !.pending = IF it.kind = "lines" THEN lines - 1 ELSE 0]]

\* self._sock.recv(...) / await self._reader.read(...) in the generator and
\* what follows it.
ReadStep(r, it, outcome) ==
    LET got == IF r.closed THEN ReadAfterClose(r.cls, outcome)
               ELSE IF r.body = 0 THEN "eof" ELSE outcome
        rr == [r EXCEPT !.read_after_close = @ \/ r.closed,
                        !.body = IF got \in {"one_line", "two_lines"} /\ ~r.closed
                                 THEN @ - 1 ELSE @]
    IN CASE got = "OSError" -> [resp |-> rr, iter |-> [it EXCEPT !.pc = "raised"]]
         [] got = "eof" -> [resp |-> rr, iter |-> [it EXCEPT !.pc = "done"]]
         [] got = "one_line" -> Yield(rr, it, 1)
         [] got = "two_lines" -> Yield(rr, it, 2)

\* next() on the generator: its body runs to the next yield, to its end or
\* to a raise.  "if self._closed: raise RuntimeError" stands at the start
\* of iter_bytes and runs on the first next(); a lines generator suspended
\* in its "while b'\n' in pending" loop yields from pending without a read.
Advance(r, it, outcome) ==
    IF it.pc = "new" /\ r.closed
    THEN [resp |-> r, iter |-> [it EXCEPT !.pc = "raised"]]
    ELSE IF it.pending > 0
    THEN [resp |-> [r EXCEPT !.yielded_after_close = @ \/ r.closed],
          iter |-> [it EXCEPT !.pending = @ - 1]]
    ELSE ReadStep(r, it, outcome)

\* iter_bytes() / iter_lines() is called: a generator is made, none of its
\* body has run.
IterNew(i, itkind) ==
    /\ iters[i] = NoIter
    /\ iters' = [iters EXCEPT ![i] = [kind |-> itkind, pc |-> "new", pending |-> 0]]
    /\ UNCHANGED sresp

IterNext(i, outcome) ==
    LET after == Advance(sresp, iters[i], outcome)
    IN /\ iters[i].pc \in {"new", "suspended"}
       /\ sresp' = after.resp
       /\ iters' = [iters EXCEPT ![i] = after.iter]

\* close(): self._closed = True and the socket (the writer) closed.
StreamingClose ==
    /\ ~sresp.closed
    /\ sresp' = [sresp EXCEPT !.closed = TRUE]
    /\ UNCHANGED iters

NewStreaming(cls, chunks) ==
    [cls |-> cls, closed |-> FALSE, body |-> chunks,
     read_after_close |-> FALSE, yielded_after_close |-> FALSE]

StreamingInit ==
    /\ sresp = NewStreaming("StreamingResponse", 0)
    /\ iters = [i \in IterIds |-> NoIter]

\* A response of either class whose body is still to arrive.
StreamingInputs ==
    /\ sresp \in {NewStreaming(cls, chunks) : cls \in StreamingClasses, chunks \in 0..MaxData}
    /\ iters = [i \in IterIds |-> NoIter]

\* The transports with nothing in progress, for the specifications that do
\* not exercise them.
TransportIdle ==
    /\ H3Init(FALSE, TRUE)
    /\ ExecInit(TRUE)
    /\ SocksInit
    /\ TlsInit
    /\ H2Init
    /\ TimeoutInit
    /\ SessionInit(TRUE)
    /\ HeaderInit
    /\ ProfileInit
    /\ WindowInit(1, 1, TRUE)
    /\ AioInit
    /\ RaceInit
    /\ WireInit
    /\ FramingInit
    /\ KeepAliveInit
    /\ StreamingInit

InitPool ==
    /\ PoolInit
    /\ BucketInit(1, 1, TRUE)
    /\ ClientInit("Client", 0, FALSE)
    /\ TransportIdle

NextPool ==
    \/ \E t \in Callers, k \in RequestKeys : Acquire(t, k)
          /\ UNCHANGED <<bucketVars, clientVars, transportVars>>
    \/ \E t \in Callers, c \in ConnIds : Connect(t, c)
          /\ UNCHANGED <<bucketVars, clientVars, transportVars>>
    \/ \E t \in Callers, c \in ConnIds : Close(t, c)
          /\ UNCHANGED <<bucketVars, clientVars, transportVars>>
    \/ \E t \in Callers, c \in ConnIds : Release(t, c)
          /\ UNCHANGED <<bucketVars, clientVars, transportVars>>
    \/ PoolClose /\ UNCHANGED <<bucketVars, clientVars, transportVars>>

SpecPool == InitPool /\ [][NextPool]_vars

InitBucket ==
    /\ \E r \in 1..MaxRate, c \in MaxTokens..MaxCapacity, b \in BOOLEAN :
          BucketInit(r, c, b)
    /\ PoolInit
    /\ max_per_host = 1
    /\ ClientInit("Client", 0, FALSE)
    /\ TransportIdle

NextBucket ==
    \/ \E t \in Callers, n \in 1..MaxTokens :
          BucketAcquire(t, n) /\ UNCHANGED <<poolVars, clientVars, transportVars>>
    \/ \E t \in Callers : BucketWake(t) /\ UNCHANGED <<poolVars, clientVars, transportVars>>
    \/ Tick /\ UNCHANGED <<poolVars, clientVars, transportVars>>

SpecBucket == InitBucket /\ [][NextBucket]_vars

InitClient ==
    /\ \E k \in {"Client", "AsyncClient"}, m \in 0..MaxRetries, rl \in BOOLEAN :
          ClientInit(k, m, rl)
    /\ \E b \in BOOLEAN : BucketInit(1, 1, b)
    /\ PoolInit
    /\ max_per_host = 1
    /\ TransportIdle

NextClient ==
    \/ StartRequest /\ UNCHANGED <<poolVars, transportVars>>
    \/ EnterClient /\ UNCHANGED <<poolVars, transportVars>>
    \/ EnterAsync /\ UNCHANGED <<poolVars, transportVars>>
    \/ AsyncLimitWake /\ UNCHANGED <<poolVars, transportVars>>
    \/ DirectCall /\ UNCHANGED <<poolVars, transportVars>>
    \/ WrapperCall /\ UNCHANGED <<poolVars, transportVars>>
    \/ BackoffWake /\ UNCHANGED <<poolVars, transportVars>>
    \/ rate_limit /\ Tick /\ UNCHANGED <<poolVars, clientVars, transportVars>>

SpecClient == InitClient /\ [][NextClient]_vars

restOfH3 ==
    <<poolVars, bucketVars, clientVars, execVars,
      socksVars, tlsVars, h2Vars, timeoutVars,
      sessionVars, headerVars, profileVars, windowVars,
      aioVars, raceVars, wireVars, framingVars,
      keepVars, streamingVars>>

InitH3 ==
    /\ \E enabled \in BOOLEAN, fallback \in BOOLEAN : H3Init(enabled, fallback)
    /\ PoolInit
    /\ max_per_host = 1
    /\ BucketInit(1, 1, TRUE)
    /\ ClientInit("AsyncClient", 0, FALSE)
    /\ ExecInit(TRUE)
    /\ SocksInit
    /\ TlsInit
    /\ H2Init
    /\ TimeoutInit
    /\ SessionInit(TRUE)
    /\ HeaderInit
    /\ ProfileInit
    /\ WindowInit(1, 1, TRUE)
    /\ AioInit
    /\ RaceInit
    /\ WireInit
    /\ FramingInit
    /\ KeepAliveInit
    /\ StreamingInit

NextH3 ==
    \/ \E t \in Callers, host \in Hosts, scheme \in {"http", "https"},
          proxied \in BOOLEAN, force_http3 \in {None, "True", "False"} :
          H3MakeRequest(t, host, scheme, proxied, force_http3)
             /\ UNCHANGED restOfH3
    \/ \E t \in Callers, ending \in H3Endings :
          H3Request(t, ending) /\ UNCHANGED restOfH3
    \/ \E t \in Callers, ok \in BOOLEAN : TcpRequest(t, ok) /\ UNCHANGED restOfH3
    \/ H3Close /\ UNCHANGED restOfH3

SpecH3 == InitH3 /\ [][NextH3]_vars

restOfExec ==
    <<bucketVars, clientVars, h3Vars, socksVars,
      tlsVars, h2Vars, timeoutVars, sessionVars,
      headerVars, profileVars, windowVars, aioVars,
      raceVars, wireVars, framingVars, keepVars,
      streamingVars>>

InitExec ==
    /\ PoolInit
    /\ max_per_host = 1
    /\ \E native \in BOOLEAN : ExecInit(native)
    /\ BucketInit(1, 1, TRUE)
    /\ ClientInit("Client", 0, FALSE)
    /\ H3Init(FALSE, TRUE)
    /\ SocksInit
    /\ TlsInit
    /\ H2Init
    /\ TimeoutInit
    /\ SessionInit(TRUE)
    /\ HeaderInit
    /\ ProfileInit
    /\ WindowInit(1, 1, TRUE)
    /\ AioInit
    /\ RaceInit
    /\ WireInit
    /\ FramingInit
    /\ KeepAliveInit
    /\ StreamingInit

NextExec ==
    \/ \E t \in Callers, k \in ExecKeys : ExecAcquire(t, k) /\ UNCHANGED restOfExec
    \/ \E t \in Callers, ok \in BOOLEAN : ExecNative(t, ok) /\ UNCHANGED restOfExec
    \/ \E t \in Callers, error \in RequestErrors :
          ExecRequestRaises(t, error) /\ UNCHANGED restOfExec
    \/ \E t \in Callers, raw_headers \in ResponseHeaders :
          ExecRequestReturns(t, raw_headers) /\ UNCHANGED restOfExec
    \/ \E t \in Callers : ExecFinish(t) /\ UNCHANGED restOfExec
    \/ \E t \in Callers, k \in ExecKeys, ending \in StreamEndings :
          ConnStream(t, k, ending) /\ UNCHANGED restOfExec
    \/ \E t \in Callers, c \in ConnIds : ReleaseStreamed(t, c) /\ UNCHANGED restOfExec
    \/ \E c \in ConnIds : StreamClose(c) /\ UNCHANGED restOfExec

SpecExec == InitExec /\ [][NextExec]_vars

restOfSocks ==
    <<poolVars, bucketVars, clientVars, h3Vars,
      execVars, tlsVars, h2Vars, timeoutVars,
      sessionVars, headerVars, profileVars, windowVars,
      aioVars, raceVars, wireVars, framingVars,
      keepVars, streamingVars>>

InitSocks ==
    /\ SocksInit
    /\ TlsInit
    /\ PoolInit
    /\ max_per_host = 1
    /\ BucketInit(1, 1, TRUE)
    /\ ClientInit("Client", 0, FALSE)
    /\ H3Init(FALSE, TRUE)
    /\ ExecInit(TRUE)
    /\ H2Init
    /\ TimeoutInit
    /\ SessionInit(TRUE)
    /\ HeaderInit
    /\ ProfileInit
    /\ WindowInit(1, 1, TRUE)
    /\ AioInit
    /\ RaceInit
    /\ WireInit
    /\ FramingInit
    /\ KeepAliveInit
    /\ StreamingInit

NextSocks ==
    \/ \E impl \in {"blocking", "cooperative"}, scheme \in {"socks5", "socks5h"},
          username \in {None, "u"}, host \in Hosts, port \in {80, 443},
          resolution \in Resolutions :
          SocksGreet(impl, scheme, username, host, port, resolution)
             /\ UNCHANGED restOfSocks
    \/ \E ver \in {4, 5}, method \in {0, 1, 2, 255} :
          SocksMethodReply(ver, method) /\ UNCHANGED restOfSocks
    \/ \E ver \in {1, 5}, status \in {0, 1} :
          SocksAuthReply(ver, status) /\ UNCHANGED restOfSocks
    \/ \E ver \in {4, 5}, rep \in {0, 5} :
          SocksConnectReply(ver, rep) /\ UNCHANGED restOfSocks

SpecSocks == InitSocks /\ [][NextSocks]_vars

restOfTls ==
    <<poolVars, bucketVars, clientVars, h3Vars,
      execVars, socksVars, h2Vars, timeoutVars,
      sessionVars, headerVars, profileVars, windowVars,
      aioVars, raceVars, wireVars, framingVars,
      keepVars, streamingVars>>

InitTls ==
    /\ TlsInit
    /\ PoolInit
    /\ max_per_host = 1
    /\ BucketInit(1, 1, TRUE)
    /\ ClientInit("Client", 0, FALSE)
    /\ H3Init(FALSE, TRUE)
    /\ ExecInit(TRUE)
    /\ SocksInit
    /\ H2Init
    /\ TimeoutInit
    /\ SessionInit(TRUE)
    /\ HeaderInit
    /\ ProfileInit
    /\ WindowInit(1, 1, TRUE)
    /\ AioInit
    /\ RaceInit
    /\ WireInit
    /\ FramingInit
    /\ KeepAliveInit
    /\ StreamingInit

NextTls ==
    \/ \E x \in TlsConns, scheme \in {"http", "https"}, socks_proxy \in BOOLEAN :
          TlsConnect(x, scheme, socks_proxy) /\ UNCHANGED restOfTls
    \/ \E x \in TlsConns, ok \in BOOLEAN : TlsOpenTcp(x, ok) /\ UNCHANGED restOfTls
    \/ \E x \in TlsConns, ok \in BOOLEAN : TlsSocks(x, ok) /\ UNCHANGED restOfTls
    \/ \E x \in TlsConns, ending \in HandshakeEndings :
          TlsHandshake(x, ending) /\ UNCHANGED restOfTls
    \/ \E x \in TlsConns, ending \in HandshakeEndings :
          TlsHandshake2(x, ending) /\ UNCHANGED restOfTls
    \/ \E x \in TlsConns : TlsClose(x) /\ UNCHANGED restOfTls

SpecTls == InitTls /\ [][NextTls]_vars

restOfH2 ==
    <<poolVars, bucketVars, clientVars, h3Vars,
      execVars, socksVars, tlsVars, timeoutVars,
      sessionVars, headerVars, profileVars, windowVars,
      aioVars, raceVars, wireVars, framingVars,
      keepVars, streamingVars>>

InitH2 ==
    /\ H2Init
    /\ PoolInit
    /\ max_per_host = 1
    /\ BucketInit(1, 1, TRUE)
    /\ ClientInit("Client", 0, FALSE)
    /\ H3Init(FALSE, TRUE)
    /\ ExecInit(TRUE)
    /\ SocksInit
    /\ TlsInit
    /\ TimeoutInit
    /\ SessionInit(TRUE)
    /\ HeaderInit
    /\ ProfileInit
    /\ WindowInit(1, 1, TRUE)
    /\ AioInit
    /\ RaceInit
    /\ WireInit
    /\ FramingInit
    /\ KeepAliveInit
    /\ StreamingInit

NextH2 ==
    \/ \E impl \in H2Transports : H2Request(impl) /\ UNCHANGED restOfH2
    \/ \E impl \in H2Transports, events \in H2Batches :
          H2Receive(impl, events) /\ UNCHANGED restOfH2
    \/ \E impl \in H2Transports : H2Closed(impl) /\ UNCHANGED restOfH2

SpecH2 == InitH2 /\ [][NextH2]_vars

restOfTimeout ==
    <<poolVars, bucketVars, clientVars, h3Vars,
      execVars, socksVars, tlsVars, h2Vars,
      sessionVars, headerVars, profileVars, windowVars,
      aioVars, raceVars, wireVars, framingVars,
      keepVars, streamingVars>>

InitTimeout ==
    /\ TimeoutInit
    /\ PoolInit
    /\ max_per_host = 1
    /\ BucketInit(1, 1, TRUE)
    /\ ClientInit("Client", 0, FALSE)
    /\ H3Init(FALSE, TRUE)
    /\ ExecInit(TRUE)
    /\ SocksInit
    /\ TlsInit
    /\ H2Init
    /\ SessionInit(TRUE)
    /\ HeaderInit
    /\ ProfileInit
    /\ WindowInit(1, 1, TRUE)
    /\ AioInit
    /\ RaceInit
    /\ WireInit
    /\ FramingInit
    /\ KeepAliveInit
    /\ StreamingInit

NextTimeout ==
    \/ \E t \in Callers, transport \in {"tcp", "h3"}, scheme \in {"http", "https"},
          framing \in Framings :
          TimedStart(t, transport, scheme, framing) /\ UNCHANGED restOfTimeout
    \/ \E t \in Callers : TimedStep(t) /\ UNCHANGED restOfTimeout
    \/ \E t \in Callers : TimedOut(t) /\ UNCHANGED restOfTimeout

SpecTimeout == InitTimeout /\ [][NextTimeout]_vars

restOfSession ==
    <<poolVars, bucketVars, clientVars, h3Vars,
      execVars, socksVars, tlsVars, h2Vars,
      timeoutVars, headerVars, profileVars, windowVars,
      aioVars, raceVars, wireVars, framingVars,
      keepVars, streamingVars>>

InitSession ==
    /\ \E auto \in BOOLEAN : SessionInit(auto)
    /\ PoolInit
    /\ max_per_host = 1
    /\ BucketInit(1, 1, TRUE)
    /\ ClientInit("Client", 0, FALSE)
    /\ H3Init(FALSE, TRUE)
    /\ ExecInit(TRUE)
    /\ SocksInit
    /\ TlsInit
    /\ H2Init
    /\ TimeoutInit
    /\ HeaderInit
    /\ ProfileInit
    /\ WindowInit(1, 1, TRUE)
    /\ AioInit
    /\ RaceInit
    /\ WireInit
    /\ FramingInit
    /\ KeepAliveInit
    /\ StreamingInit

NextSession ==
    \/ \E url \in Urls, hdrs \in CallerHeaders :
          \E raw_headers \in RawHeaders(HostOf(url)) :
              SessionRequestReturns(url, hdrs, raw_headers)
                 /\ UNCHANGED restOfSession
    \/ \E url \in Urls, hdrs \in CallerHeaders :
          SessionRequestRaises(url, hdrs) /\ UNCHANGED restOfSession

SpecSession == InitSession /\ [][NextSession]_vars

restOfHeaders ==
    <<poolVars, bucketVars, clientVars, h3Vars,
      execVars, socksVars, tlsVars, h2Vars,
      timeoutVars, sessionVars, profileVars, windowVars,
      aioVars, raceVars, wireVars, framingVars,
      keepVars, streamingVars>>

InitHeaders ==
    /\ \E default_headers \in DefaultHeaders, user_headers \in UserHeaders,
          order \in Orders : HeaderArgs(default_headers, user_headers, order)
    /\ PoolInit
    /\ max_per_host = 1
    /\ BucketInit(1, 1, TRUE)
    /\ ClientInit("Client", 0, FALSE)
    /\ H3Init(FALSE, TRUE)
    /\ ExecInit(TRUE)
    /\ SocksInit
    /\ TlsInit
    /\ H2Init
    /\ TimeoutInit
    /\ SessionInit(TRUE)
    /\ ProfileInit
    /\ WindowInit(1, 1, TRUE)
    /\ AioInit
    /\ RaceInit
    /\ WireInit
    /\ FramingInit
    /\ KeepAliveInit
    /\ StreamingInit

NextHeaders == Canonicalize /\ UNCHANGED restOfHeaders

SpecHeaders == InitHeaders /\ [][NextHeaders]_vars

restOfProfiles ==
    <<poolVars, bucketVars, clientVars, h3Vars,
      execVars, socksVars, tlsVars, h2Vars,
      timeoutVars, sessionVars, headerVars, windowVars,
      aioVars, raceVars, wireVars, framingVars,
      keepVars, streamingVars>>

InitProfiles ==
    /\ ProfileInit
    /\ PoolInit
    /\ max_per_host = 1
    /\ BucketInit(1, 1, TRUE)
    /\ ClientInit("Client", 0, FALSE)
    /\ H3Init(FALSE, TRUE)
    /\ ExecInit(TRUE)
    /\ SocksInit
    /\ TlsInit
    /\ H2Init
    /\ TimeoutInit
    /\ SessionInit(TRUE)
    /\ HeaderInit
    /\ WindowInit(1, 1, TRUE)
    /\ AioInit
    /\ RaceInit
    /\ WireInit
    /\ FramingInit
    /\ KeepAliveInit
    /\ StreamingInit

NextProfiles ==
    \/ \E name \in DOMAIN PROFILES : GetProfile(name) /\ UNCHANGED restOfProfiles
    \/ \E i \in 1..MaxCopies : MutateList(i) /\ UNCHANGED restOfProfiles
    \/ \E i \in 1..MaxCopies : MutateDict(i) /\ UNCHANGED restOfProfiles
    \/ \E cls \in {"Client", "AsyncClient"}, impersonate \in DOMAIN PROFILES,
          force_http1 \in BOOLEAN, http3 \in BOOLEAN, tls_opts \in TlsOptions,
          ja3 \in Ja3Options :
          NewClient(cls, impersonate, force_http1, http3, tls_opts, ja3)
             /\ UNCHANGED restOfProfiles

SpecProfiles == InitProfiles /\ [][NextProfiles]_vars

restOfWindow ==
    <<poolVars, bucketVars, clientVars, h3Vars,
      execVars, socksVars, tlsVars, h2Vars,
      timeoutVars, sessionVars, headerVars, profileVars,
      aioVars, raceVars, wireVars, framingVars,
      keepVars, streamingVars>>

InitWindow ==
    /\ \E m \in 1..MaxRequests, w \in 1..MaxWindow, b \in BOOLEAN :
          WindowInit(m, w, b)
    /\ PoolInit
    /\ max_per_host = 1
    /\ BucketInit(1, 1, TRUE)
    /\ ClientInit("Client", 0, FALSE)
    /\ H3Init(FALSE, TRUE)
    /\ ExecInit(TRUE)
    /\ SocksInit
    /\ TlsInit
    /\ H2Init
    /\ TimeoutInit
    /\ SessionInit(TRUE)
    /\ HeaderInit
    /\ ProfileInit
    /\ AioInit
    /\ RaceInit
    /\ WireInit
    /\ FramingInit
    /\ KeepAliveInit
    /\ StreamingInit

NextWindow ==
    \/ \E t \in Callers : WindowAcquire(t) /\ UNCHANGED restOfWindow
    \/ \E t \in Callers : WindowWake(t) /\ UNCHANGED restOfWindow
    \/ WindowTick /\ UNCHANGED restOfWindow

SpecWindow == InitWindow /\ [][NextWindow]_vars

restOfAio ==
    <<poolVars, bucketVars, clientVars, h3Vars,
      execVars, socksVars, tlsVars, h2Vars,
      timeoutVars, sessionVars, headerVars, profileVars,
      windowVars, raceVars, wireVars, framingVars,
      keepVars, streamingVars>>

InitAio ==
    /\ AioInit
    /\ PoolInit
    /\ max_per_host = 1
    /\ BucketInit(1, 1, TRUE)
    /\ ClientInit("Client", 0, FALSE)
    /\ H3Init(FALSE, TRUE)
    /\ ExecInit(TRUE)
    /\ SocksInit
    /\ TlsInit
    /\ H2Init
    /\ TimeoutInit
    /\ SessionInit(TRUE)
    /\ HeaderInit
    /\ ProfileInit
    /\ WindowInit(1, 1, TRUE)
    /\ RaceInit
    /\ WireInit
    /\ FramingInit
    /\ KeepAliveInit
    /\ StreamingInit

NextAio ==
    \/ \E t \in Callers, socks_proxy \in BOOLEAN, scheme \in {"http", "https"},
          protocol \in {"http/1.1", "h2"} :
          AioOpen(t, socks_proxy, scheme, protocol) /\ UNCHANGED restOfAio
    \/ \E t \in Callers : AioResume(t) /\ UNCHANGED restOfAio
    \/ \E t \in Callers, failure \in {"raised", "StreamReset", "closed_early"} :
          AioFail(t, failure) /\ UNCHANGED restOfAio
    \/ \E t \in Callers : AioCancel(t) /\ UNCHANGED restOfAio

SpecAio == InitAio /\ [][NextAio]_vars

restOfRace ==
    <<bucketVars, clientVars, h3Vars, execVars,
      socksVars, tlsVars, h2Vars, timeoutVars,
      sessionVars, headerVars, profileVars, windowVars,
      aioVars, wireVars, framingVars, keepVars,
      streamingVars>>

InitRace ==
    /\ RaceInit
    /\ PoolInit
    /\ max_per_host = 1
    /\ BucketInit(1, 1, TRUE)
    /\ ClientInit("Client", 0, FALSE)
    /\ H3Init(FALSE, TRUE)
    /\ ExecInit(TRUE)
    /\ SocksInit
    /\ TlsInit
    /\ H2Init
    /\ TimeoutInit
    /\ SessionInit(TRUE)
    /\ HeaderInit
    /\ ProfileInit
    /\ WindowInit(1, 1, TRUE)
    /\ AioInit
    /\ WireInit
    /\ FramingInit
    /\ KeepAliveInit
    /\ StreamingInit

NextRace ==
    \/ \E t \in Callers, k \in ExecKeys : RaceAcquireCall(t, k) /\ UNCHANGED restOfRace
    \/ \E t \in Callers : RaceAcquireTest(t) /\ UNCHANGED restOfRace
    \/ \E t \in Callers : RaceAcquirePop(t) /\ UNCHANGED restOfRace
    \/ \E t \in Callers : RaceAcquireNew(t) /\ UNCHANGED restOfRace
    \/ \E t \in Callers, c \in ConnIds : RaceReleaseCheck(t, c) /\ UNCHANGED restOfRace
    \/ \E t \in Callers : RaceReleaseAct(t) /\ UNCHANGED restOfRace
    \/ \E t \in Callers, c \in ConnIds : RaceConnect(t, c) /\ UNCHANGED restOfRace

SpecRace == InitRace /\ [][NextRace]_vars

restOfWire ==
    <<poolVars, bucketVars, clientVars, h3Vars,
      execVars, socksVars, tlsVars, h2Vars,
      timeoutVars, sessionVars, headerVars, profileVars,
      windowVars, aioVars, raceVars, framingVars,
      keepVars, streamingVars>>

InitWire ==
    /\ WireInit
    /\ PoolInit
    /\ max_per_host = 1
    /\ BucketInit(1, 1, TRUE)
    /\ ClientInit("Client", 0, FALSE)
    /\ H3Init(FALSE, TRUE)
    /\ ExecInit(TRUE)
    /\ SocksInit
    /\ TlsInit
    /\ H2Init
    /\ TimeoutInit
    /\ SessionInit(TRUE)
    /\ HeaderInit
    /\ ProfileInit
    /\ WindowInit(1, 1, TRUE)
    /\ AioInit
    /\ RaceInit
    /\ FramingInit
    /\ KeepAliveInit
    /\ StreamingInit

NextWire ==
    \/ \E e \in ConnectEndings : DoConnect(e) /\ UNCHANGED restOfWire
    \/ \E e \in ConnectEndings, sent \in BOOLEAN, ending \in ReadEndings :
          DoRequest(e, sent, ending) /\ UNCHANGED restOfWire
    \/ \E e \in ConnectEndings, sent \in BOOLEAN, ending \in HeadEndings :
          DoStream(e, sent, ending) /\ UNCHANGED restOfWire
    \/ \E ending \in CloseEndings : DoClose(ending) /\ UNCHANGED restOfWire
    \/ \E e \in ConnectEndings, sent \in BOOLEAN, ending \in HeadEndings :
          DoClientStream(e, sent, ending) /\ UNCHANGED restOfWire

SpecWire == InitWire /\ [][NextWire]_vars

restOfFraming ==
    <<poolVars, bucketVars, clientVars, h3Vars,
      execVars, socksVars, tlsVars, h2Vars,
      timeoutVars, sessionVars, headerVars, profileVars,
      windowVars, aioVars, raceVars, wireVars,
      keepVars, streamingVars>>

InitFraming ==
    /\ FramingInputs
    /\ PoolInit
    /\ max_per_host = 1
    /\ BucketInit(1, 1, TRUE)
    /\ ClientInit("Client", 0, FALSE)
    /\ H3Init(FALSE, TRUE)
    /\ ExecInit(TRUE)
    /\ SocksInit
    /\ TlsInit
    /\ H2Init
    /\ TimeoutInit
    /\ SessionInit(TRUE)
    /\ HeaderInit
    /\ ProfileInit
    /\ WindowInit(1, 1, TRUE)
    /\ AioInit
    /\ RaceInit
    /\ WireInit
    /\ KeepAliveInit
    /\ StreamingInit

NextFraming ==
    \/ ReadBlocking /\ UNCHANGED restOfFraming
    \/ ReadCooperative /\ UNCHANGED restOfFraming
    \/ ReadStreaming /\ UNCHANGED restOfFraming

SpecFraming == InitFraming /\ [][NextFraming]_vars

restOfKeepAlive ==
    <<poolVars, bucketVars, clientVars, h3Vars,
      execVars, socksVars, tlsVars, h2Vars,
      timeoutVars, sessionVars, headerVars, profileVars,
      windowVars, aioVars, raceVars, wireVars,
      framingVars, streamingVars>>

InitKeepAlive ==
    /\ KeepAliveInputs
    /\ PoolInit
    /\ max_per_host = 1
    /\ BucketInit(1, 1, TRUE)
    /\ ClientInit("Client", 0, FALSE)
    /\ H3Init(FALSE, TRUE)
    /\ ExecInit(TRUE)
    /\ SocksInit
    /\ TlsInit
    /\ H2Init
    /\ TimeoutInit
    /\ SessionInit(TRUE)
    /\ HeaderInit
    /\ ProfileInit
    /\ WindowInit(1, 1, TRUE)
    /\ AioInit
    /\ RaceInit
    /\ WireInit
    /\ FramingInit
    /\ StreamingInit

NextKeepAlive ==
    \/ BuildHeaders("Client") /\ UNCHANGED restOfKeepAlive
    \/ BuildHeaders("AsyncClient") /\ UNCHANGED restOfKeepAlive

SpecKeepAlive == InitKeepAlive /\ [][NextKeepAlive]_vars

restOfStreaming ==
    <<poolVars, bucketVars, clientVars, h3Vars,
      execVars, socksVars, tlsVars, h2Vars,
      timeoutVars, sessionVars, headerVars, profileVars,
      windowVars, aioVars, raceVars, wireVars,
      framingVars, keepVars>>

InitStreaming ==
    /\ StreamingInputs
    /\ PoolInit
    /\ max_per_host = 1
    /\ BucketInit(1, 1, TRUE)
    /\ ClientInit("Client", 0, FALSE)
    /\ H3Init(FALSE, TRUE)
    /\ ExecInit(TRUE)
    /\ SocksInit
    /\ TlsInit
    /\ H2Init
    /\ TimeoutInit
    /\ SessionInit(TRUE)
    /\ HeaderInit
    /\ ProfileInit
    /\ WindowInit(1, 1, TRUE)
    /\ AioInit
    /\ RaceInit
    /\ WireInit
    /\ FramingInit
    /\ KeepAliveInit

NextStreaming ==
    \/ \E i \in IterIds, itkind \in IterKinds :
          IterNew(i, itkind) /\ UNCHANGED restOfStreaming
    \/ \E i \in IterIds, outcome \in ReadOutcomes :
          IterNext(i, outcome) /\ UNCHANGED restOfStreaming
    \/ StreamingClose /\ UNCHANGED restOfStreaming

SpecStreaming == InitStreaming /\ [][NextStreaming]_vars

(***************************************************************************)
(* Claims about the pool.                                                  *)
(***************************************************************************)
RECURSIVE SumOver(_, _)
SumOver(f, S) ==
    IF S = {} THEN 0
    ELSE LET x == CHOOSE y \in S : TRUE IN f[x] + SumOver(f, S \ {x})

Outstanding(c) == SumOver([t \in Callers |-> leases[t][c]], Callers)

InIdleList(c) == \E key \in PoolKeys : c \in Range(pools[key])

C2_KeySeparation ==
    \A c \in ConnIds : \A k1, k2 \in issued[c] : k1 = k2

\* C3: the idle list of every pool key holds at most max_per_host
\* connections.
C3_IdleBound ==
    \A key \in PoolKeys : Len(pools[key]) <= max_per_host

\* C3 witness: a release found the bucket of its key full and closed the
\* connection; the bucket is at its bound.
C3_Witness ==
    \E c \in evicted :
        /\ conns[c].closed
        /\ Len(pools[PoolKey(conns[c].scheme, conns[c].host, conns[c].port)])
              = max_per_host

(***************************************************************************)
(* Claims about the token bucket.                                          *)
(***************************************************************************)
\* C4: after every refill performed by an acquire call the token count is
\* between 0 and capacity.
C4_TokensInRange == 0 <= after_refill /\ after_refill <= capacity

RECURSIVE GrantedIn(_, _)
GrantedIn(t0, t1) == IF t0 > t1 THEN 0 ELSE granted[t0] + GrantedIn(t0 + 1, t1)

\* C5: over any interval [t0, t1] the tokens granted are at most
\* capacity + rate * (t1 - t0).
C5_Conservation ==
    \A t0 \in 0..now : \A t1 \in t0..now :
        GrantedIn(t0, t1) <= capacity + rate * (t1 - t0)

(***************************************************************************)
(* Claims about the retry controller and the clients' request().           *)
(***************************************************************************)
Done == req.pc \in {"returned", "raised"}

\* The request was refused by the non-blocking rate limiter.
Denied == req.result = "raise" /\ req.value = Raises("RateLimitExceeded")

\* A failure the retry controller is configured to retry: a response with a
\* retryable status, or an exception of a retryable class.
RetriableFailure(out) ==
    IF out.exc = "None" THEN out.status \in RetryableStatusCodes
    ELSE IsRetryable(out.exc)

Success(out) == out.exc = "None" /\ out.status \notin RetryableStatusCodes

\* The request function fails with a retriable error exactly k times and
\* then succeeds.
FailsThenSucceeds(k) ==
    /\ k + 1 \in DOMAIN req.script
    /\ \A i \in 1..k : RetriableFailure(req.script[i])
    /\ Success(req.script[k + 1])

\* C6: if the request function fails with a retriable error exactly k times,
\* k < max_retries, and then succeeds, the call returns that success value
\* and has executed the function exactly k + 1 times.
C6_RetryUntilSuccess ==
    \A k \in 0..MaxRetries :
        (Done /\ ~Denied /\ k < max_retries /\ FailsThenSucceeds(k))
            => /\ req.result = "return"
               /\ req.value = req.script[k + 1]
               /\ req.calls = k + 1

\* C6 witness: a call that returned the success of its second execution
\* after one retriable failure, with a retry still unused.
C6_Witness ==
    /\ Done
    /\ max_retries > 1
    /\ FailsThenSucceeds(1)
    /\ req.calls = 2
    /\ req.result = "return"

\* C7: if every execution fails with a retriable exception or status, a
\* client with max_retries = m > 0 executes the function exactly m + 1 times
\* and raises RetryError whose cause is the last failure.
C7_Exhausted ==
    (/\ Done /\ ~Denied
     /\ max_retries > 0
     /\ \A i \in DOMAIN req.script : RetriableFailure(req.script[i]))
        => /\ req.result = "raise"
           /\ req.value = Raises("RetryError")
           /\ req.calls = max_retries + 1
           /\ req.cause = LastExc(NoExc, req.script[max_retries + 1],
                                  max_retries + 1)

\* C7 witness: a call that raised RetryError after max_retries + 1 failed
\* executions, the last of them an exception.
C7_Witness ==
    /\ Done
    /\ max_retries > 1
    /\ req.value = Raises("RetryError")
    /\ req.calls = max_retries + 1
    /\ req.cause.class \in {"TimeoutError", "ConnectionRefusedError"}
    /\ req.script[1].exc = "None"

\* C8: with max_retries > 0 the connect-failed error the Connection raises
\* is retried, never handed to the caller of request().
C8_ConnectErrorRetried ==
    (max_retries > 0 /\ req.result = "raise")
        => req.value # Raises("gakido.errors.ConnectionError")

\* C9: with a rate limiter and retries configured, every execution of the
\* request acquires from the rate limiter: a finished call has acquired as
\* many times as it has executed the request.
C9_AcquirePerAttempt ==
    (kind = "AsyncClient" /\ rate_limit /\ max_retries > 0 /\ Done)
        => req.acquired = req.calls

H3FailedCall(t) == h3req[t].pc = "done" /\ h3req[t].h3 \in H3Failures

\* C11: with http3_fallback, a request whose HTTP/3 attempt failed, in the
\* connect or in the request, has put its host into h3_failed_hosts, has
\* then been executed over TCP, and ends with what the TCP attempt ended
\* with, never with the HTTP/3 error.
C11_FallbackToTcp ==
    \A t \in Callers :
        /\ (http3_fallback /\ h3req[t].h3 \in H3Failures)
              => /\ h3req[t].host \in ever_failed
                 /\ h3req[t].pc \in {"tcp", "done"}
        /\ (http3_fallback /\ H3FailedCall(t))
              => /\ h3req[t].tcp # "none"
                 /\ h3req[t].result = IF h3req[t].tcp = "ok" THEN "tcp_response"
                                      ELSE "raise"
                 /\ h3req[t].error \notin H3Failures

\* C11 witness: both kinds of HTTP/3 failure followed by a TCP response.
C11_Witness ==
    /\ http3_fallback
    /\ H3FailedCall("t1") /\ h3req["t1"].h3 = "connect_failed"
    /\ H3FailedCall("t2") /\ h3req["t2"].h3 = "request_failed"
    /\ h3req["t1"].result = "tcp_response"
    /\ h3req["t2"].result = "tcp_response"
    /\ h3req["t1"].host \in h3_failed_hosts

\* C12: a host once put into h3_failed_hosts stays in it whatever is done
\* with the client, and no request started after that attempts HTTP/3 to
\* the host.
C12_FailedHostsKept ==
    /\ ever_failed \subseteq h3_failed_hosts
    /\ \A t \in Callers : h3req[t].demoted => ~h3req[t].use_http3

\* C13: without http3_fallback, a request whose HTTP/3 attempt failed ends
\* with that error as raised, has made no TCP attempt, and its host is not
\* in h3_failed_hosts.
C13_NoFallbackRaises ==
    \A t \in Callers :
        (~http3_fallback /\ h3req[t].h3 \in H3Failures)
            => /\ h3req[t].pc = "done"
               /\ h3req[t].result = "raise"
               /\ h3req[t].error = h3req[t].h3
               /\ h3req[t].tcp = "none"
               /\ h3req[t].host \notin h3_failed_hosts
               /\ ever_failed = {}

\* C13 witness: a call ended by the error of its failed HTTP/3 request on a
\* client without fallback.
C13_Witness ==
    /\ ~http3_fallback
    /\ H3FailedCall("t1")
    /\ h3req["t1"].error = "request_failed"
    /\ h3req["t1"].host \in h3_protocols

(***************************************************************************)
(* Claims about the request executor and the ownership of sockets.         *)
(***************************************************************************)
\* No _make_request call is using connection c.
Unused(c) == \A t \in Callers : exec[t].conn # c

\* C14: a connection on which executing a request raised is closed by the
\* executor and not released: it is in no idle list, acquire never returns
\* it again, and once the call has ended it is closed and nobody holds it.
C14_FailedConnDiscarded ==
    \A c \in failed_conns :
        /\ ~InIdleList(c)
        /\ c \notin handed_again
        /\ Unused(c) => (conns[c].closed /\ sock[c] = 0 /\ Outstanding(c) = 0)

\* C14 witness: a connection that had been reused from the pool, then had a
\* request raise on it, after the call has ended.
C14_Witness ==
    \E c \in failed_conns :
        /\ c \in reused
        /\ Unused(c)
        /\ conns[c].closed
        /\ \E c2 \in ConnIds : InIdleList(c2)

\* C15: a connection over which a response with Connection: close came, in
\* whatever letter case, is closed and is in no idle list, and acquire never
\* returns it again.
C15_CloseHonoured ==
    \A p \in close_conns :
        /\ conns[p[1]].closed
        /\ sock[p[1]] = 0
        /\ ~InIdleList(p[1])
        /\ p[1] \notin handed_again

\* C15 witness: a connection reused from the pool whose response then said
\* CONNECTION: CLOSE, after the call has ended.
C15_Witness ==
    \E c \in reused :
        /\ <<c, <<<<"CONNECTION", "CLOSE">>>>>> \in close_conns
        /\ Unused(c)
        /\ Outstanding(c) = 0

\* C16: a Connection that gave its socket to a StreamingResponse is marked
\* closed and holds no socket; until the StreamingResponse is closed no
\* Connection holds that socket; and the pool neither stores the Connection
\* nor hands it out.
C16_StreamOwnsSocket ==
    \A c \in stream_conns :
        /\ conns[c].closed
        /\ sock[c] = 0
        /\ ~streams[c].closed => \A c2 \in ConnIds : sock[c2] # streams[c].sock
        /\ ~InIdleList(c)
        /\ c \notin handed_again

\* C16 witness: an open StreamingResponse whose Connection has been passed
\* to release, beside a connection idle in the pool.
C16_Witness ==
    \E c \in stream_conns :
        /\ ~streams[c].closed
        /\ streams[c].sock # 0
        /\ Outstanding(c) = 0
        /\ \E c2 \in ConnIds : InIdleList(c2)

(***************************************************************************)
(* Claims about the SOCKS5 handshake.                                      *)
(***************************************************************************)
\* A CONNECT request has been sent: a message after the greeting that
\* starts with the version byte 5 (the username/password request starts
\* with 1).  It is the last message the client sends.
ConnectSent == \E i \in 2..Len(socks5.sent) : socks5.sent[i][1] = 5

SentConnect == socks5.sent[Len(socks5.sent)]

\* The methods the greeting offered.
Offered ==
    IF socks5.sent = <<>> THEN {}
    ELSE { socks5.sent[1][i] : i \in 3..Len(socks5.sent[1]) }

\* C17: in both handshakes the CONNECT request to a socks5h proxy carries
\* address type DOMAINNAME (3) and the length-prefixed host name, the one to
\* a socks5 proxy the locally resolved address with type IPv4 (1) or IPv6
\* (4), each followed by the port as a big-endian uint16.
C17_ConnectAddressType ==
    ConnectSent =>
        IF socks5.scheme = "socks5h"
        THEN SentConnect = <<5, 1, 0, 3, Len(Utf8(socks5.host))>>
                              \o Utf8(socks5.host) \o PackPort(socks5.port)
        ELSE /\ SentConnect[4] \in {1, 4}
             /\ SentConnect = <<5, 1, 0, 1>> \o InetPton(socks5.host)
                                 \o PackPort(socks5.port)

\* C18: when the method reply is 0xFF or a method the greeting did not
\* offer, the handshake has failed and nothing was sent after the greeting.
C18_MethodRejected ==
    (socks5.method # -1 /\ (socks5.method = 255 \/ socks5.method \notin Offered))
        => /\ socks5.pc = "failed"
           /\ socks5.error
           /\ Len(socks5.sent) = 1

\* C18 witness: the server selected username/password although the
\* greeting of a handshake without credentials offered only "no
\* authentication".
C18_Witness ==
    /\ socks5.username = None
    /\ Offered = {0}
    /\ socks5.method = 2
    /\ socks5.pc = "failed"

(***************************************************************************)
(* Claims about Connection.connect.                                        *)
(***************************************************************************)
\* C19: one connect() makes two TLS handshake attempts at most; the second
\* is made only after the first failed, on a newly dialled socket, with the
\* first socket closed, and with a default context; when the second fails
\* too, TLSNegotiationError is raised and the Connection is left closed.
C19_OneTlsRetry ==
    \A x \in TlsConns :
        LET c == tls[x]
            n == Len(c.handshakes)
        IN /\ n <= 2
           /\ (n >= 1 /\ c.handshakes[1].ending = "ssl_error")
                 => /\ c.raws[c.handshakes[1].raw] = "closed"
                    /\ c.pc # "handshake"
           /\ n = 2
                 => /\ c.handshakes[1].ending = "ssl_error"
                    /\ c.handshakes[2].raw # c.handshakes[1].raw
                    /\ c.handshakes[2].context = "default"
           /\ (n = 2 /\ c.handshakes[2].ending = "ssl_error")
                 => /\ c.pc = "raised"
                    /\ c.error = "TLSNegotiationError"
                    /\ c.closed /\ c.sock = 0
                    /\ c.raws[c.handshakes[2].raw] = "closed"

\* C19 witness: a connect() whose two handshakes both failed, beside one
\* whose retry succeeded.
C19_Witness ==
    /\ Len(tls["c1"].handshakes) = 2
    /\ tls["c1"].handshakes[2].ending = "ssl_error"
    /\ tls["c1"].error = "TLSNegotiationError"
    /\ Len(tls["c2"].handshakes) = 2
    /\ tls["c2"].pc = "open"

(***************************************************************************)
(* Claims about the HTTP/2 read loop.                                      *)
(***************************************************************************)
H2Captured(r) == r.status # 0 \/ r.resp_body # 0 \/ r.resp_headers # <<>>

\* C20: on either HTTP/2 transport, when the socket closes before the
\* stream has ended, the request returns a Response with the status,
\* headers and body captured so far if anything was captured, and raises
\* ProtocolError only if nothing was.
C20_PartialOnClose ==
    \A impl \in H2Transports :
        h2[impl].pc = "closed_early" =>
            IF H2Captured(h2[impl])
            THEN /\ h2[impl].result = "Response"
                 /\ h2[impl].response.status = h2[impl].status
                 /\ h2[impl].response.headers = h2[impl].resp_headers
                 /\ h2[impl].response.body = h2[impl].resp_body
            ELSE h2[impl].result = "ProtocolError"

(***************************************************************************)
(* Claims about timeouts.                                                  *)
(***************************************************************************)
\* C21: a call in which a TCP connect, a TLS handshake, a socket read or
\* write, or the wait for the HTTP/3 response timed out ends with an
\* exception that is a TimeoutError and that the retry controller retries,
\* never with a response.
C21_TimeoutRaisesRetriable ==
    \A t \in Callers :
        (tmo[t].pc = "done" /\ tmo[t].timed_out # None) =>
            /\ tmo[t].result.exc # "None"
            /\ "TimeoutError" \in Bases(tmo[t].result.exc)
            /\ IsRetryable(tmo[t].result.exc)

(***************************************************************************)
(* Claims about sessions.                                                  *)
(***************************************************************************)
\* C22: with auto_referer on, a call whose caller gave no Referer carries
\* no Referer if it is the first call of the session, and otherwise a
\* Referer equal to the URL of the call made immediately before it.
C22_RefererIsPreviousUrl ==
    (auto_referer /\ call.n = 1 /\ ~HasHeader(call.caller_headers, "Referer"))
        => call.referer = prev_url

\* C23: after every call of Session.request, returned or raised, the
\* recorded previous URL is the URL of that call.
C23_LastUrlIsCallUrl == call.n = 1 => last_url = call.url

\* C24: the Cookie header the session inserts in a call holds only cookies
\* that a response of the host of the call's URL set, and the jar of a host
\* holds only such cookies.
C24_CookiesHostScoped ==
    /\ \A c \in call.cookie : c[2] \in CookieValues(HostOf(call.url))
    /\ \A h \in DOMAIN store : \A k \in CookieNames :
          store[h][k] # None => store[h][k] \in CookieValues(h)

\* A call that carries a cookie of its host while the jar holds a cookie of
\* the other host.
C24_Witness ==
    /\ call.n = 1
    /\ call.cookie # {}
    /\ \E h \in DOMAIN store : h # HostOf(call.url) /\ CookieHeader(store, h) # {}

(***************************************************************************)
(* Claims about canonicalize_headers.                                      *)
(***************************************************************************)
HasControl(text) == \E i \in DOMAIN text : text[i] \in {0, 10, 13}

\* The dict a caller gets by sanitizing the keys and values of user_headers.
RECURSIVE SanitizedDict(_, _)
SanitizedDict(d, pairs) ==
    IF pairs = <<>> THEN [i \in DOMAIN d |-> d[i][2]]
    ELSE LET clean == <<SelectSeq(pairs[1][1], LAMBDA b : b \notin {0, 10, 13}),
                        SelectSeq(pairs[1][2], LAMBDA b : b \notin {0, 10, 13})>>
         IN SanitizedDict(DictSet(d, clean[1], clean), Tail(pairs))

SanitizedList(pairs) ==
    [i \in DOMAIN pairs |->
        <<SelectSeq(pairs[i][1], LAMBDA b : b \notin {0, 10, 13}),
          SelectSeq(pairs[i][2], LAMBDA b : b \notin {0, 10, 13})>>]

\* C25: the result of canonicalize_headers has no name and no value with
\* CR, LF or NUL in it, and it has as many headers as the result for the
\* arguments with those characters already deleted.
C25_HeadersSanitized ==
    hdr.pc = "returned" =>
        /\ \A i \in DOMAIN hdr.result :
              ~HasControl(hdr.result[i][1]) /\ ~HasControl(hdr.result[i][2])
        /\ Len(hdr.result) =
              Len(canonicalize_headers(SanitizedList(hdr.default_headers),
                                       SanitizedDict(<<>>, hdr.user_headers),
                                       hdr.order))

\* A call whose user_headers carry CR LF and a header line in a value, and
\* a name that is the name of a default header once CR is deleted.
C25_Witness ==
    /\ hdr.pc = "returned"
    /\ \E i \in DOMAIN hdr.user_headers :
          hdr.user_headers[i] = <<<<65, 13>>, <<118, 13, 10, 66, 58, 118>>>>
    /\ hdr.default_headers = <<<<<<97>>, <<118>>>>>>
    /\ Len(hdr.result) = 1

(***************************************************************************)
(* Claims about profiles.                                                  *)
(***************************************************************************)
\* The profile of a name as profiles.py defines it.
Pristine(name) == Resolve(RegistryHeap, Ref(PROFILES[name]))

\* C26: whatever was done to the objects earlier get_profile calls
\* returned, the ALPN rewrite of a client on its copy included,
\* get_profile of every name and alias returns the profile as defined.
C26_ProfilesIsolated ==
    \A name \in DOMAIN PROFILES :
        LET p == get_profile(heap, name)
        IN Resolve(p[1], Ref(p[2])) = Pristine(name)

\* A result of get_profile was changed by its caller, and a later call for
\* an alias of the same base returned the profile as defined.
C26_Witness ==
    \E i, j \in DOMAIN handles :
        /\ i < j
        /\ PROFILES[handles[i].name] = PROFILES[handles[j].name]
        /\ handles[i].name # handles[j].name
        /\ Mutated(handles[i])
        /\ handles[j].after_mutation
        /\ ~Mutated(handles[j])

\* C27: a client constructed with force_http1 and without HTTP/3 has
\* ["http/1.1"] as tls.alpn and as http2.alpn of its profile, whatever
\* ja3 and tls_configuration_options it was given.
C27_ForceHttp1Alpn ==
    (client_profile.n = 1 /\ client_profile.force_http1 /\ ~client_profile.http3)
        => LET p == Resolve(heap, Ref(client_profile.profile))
           IN /\ p["tls"]["alpn"] = ListValue(<<"http/1.1">>)
              /\ p["http2"]["alpn"] = ListValue(<<"http/1.1">>)

(***************************************************************************)
(* Claims about the sliding window limiter.                                *)
(***************************************************************************)
RECURSIVE ReturnedIn(_, _)
ReturnedIn(from, to) ==
    IF from > to THEN 0 ELSE sw_granted[from] + ReturnedIn(from + 1, to)

\* C28: in every window of length window_seconds, its two ends included, at
\* most max_requests acquire calls returned.
C28_WindowLimit ==
    \A from \in 0..MaxTime :
        LET to == IF from + window_seconds > MaxTime THEN MaxTime
                  ELSE from + window_seconds
        IN ReturnedIn(from, to) <= max_requests

\* The limit was reached, a caller slept, and acquire calls returned again
\* after the window had passed.
C28_Witness ==
    /\ sw_blocking
    /\ sw_granted[0] = max_requests
    /\ ReturnedIn(0, MaxTime) > max_requests
    /\ \E t \in Callers : sw_calls[t].pc = "sleeping"

(***************************************************************************)
(* Claims about cancellation and failure of a cooperative request.         *)
(***************************************************************************)
\* C29: a cooperative request that was cancelled, or failed, at an await
\* after its socket was opened has closed the socket.
C29_SocketClosedOnCancel ==
    \A t \in Callers :
        aio[t].ended \in {"cancelled", "raised"} => aio[t].writer = "closed"

(***************************************************************************)
(* Claims about the pool under concurrent calls.                           *)
(***************************************************************************)
Holders(c) == { t \in Callers : leases[t][c] > 0 }

\* C30: in every interleaving of the acquire and release calls of several
\* threads, no list of the pool holds more than max_per_host connections,
\* no connection is stored twice, and no connection is held by two callers
\* or held while it is stored.
C30_PoolSerialized ==
    /\ \A key \in PoolKeys : Len(pools[key]) <= max_per_host
    /\ \A key \in PoolKeys : \A i, j \in 1..Len(pools[key]) :
          i # j => pools[key][i] # pools[key][j]
    /\ \A c \in ConnIds :
          /\ Cardinality(Holders(c)) <= 1
          /\ \A t \in Callers : leases[t][c] <= 1
          /\ (\E key \in PoolKeys : c \in Range(pools[key])) => Holders(c) = {}

(***************************************************************************)
(* Claims about connections through a SOCKS5 proxy.                        *)
(***************************************************************************)
\* C31: on a Connection through a SOCKS5 proxy, no TLS handshake is started
\* and no socket is handed to the request code (the socket HTTP bytes are
\* written to) unless the SOCKS5 handshake has completed on that very
\* socket, that is, its CONNECT was answered with REP = 0.
C31_SocksBeforeTlsAndHttp ==
    \A x \in TlsConns :
        tls[x].socks_proxy =>
            /\ \A i \in 1..Len(tls[x].handshakes) :
                   tls[x].handshakes[i].raw \in tls[x].socksed
            /\ tls[x].pc = "open" => tls[x].sock \in tls[x].socksed

\* C36: when the TLS retry has dialled again on a Connection through a
\* SOCKS5 proxy, the second TLS handshake starts only after the SOCKS5
\* handshake has been performed on the newly dialled socket.
C36_SocksRedoneOnRetry ==
    \A x \in TlsConns :
        (tls[x].socks_proxy /\ Len(tls[x].raws) = 2 /\ tls[x].pc # "handshake2")
            => 2 \in tls[x].socksed

(***************************************************************************)
(* Claims about one Connection object.                                     *)
(***************************************************************************)
H2Sockets == {i \in 1..Len(sockets) : sockets[i].alpn = "h2"}

Count(seq, what) == Cardinality({j \in 1..Len(seq) : seq[j] = what})

\* C32: on a socket whose negotiated ALPN is h2 the first thing written is
\* the HTTP/2 preface with SETTINGS, and no HTTP/1.1 request line or header
\* block is ever written to it.
C32_OnlyHttp2OnH2Socket ==
    \A i \in H2Sockets :
        /\ sockets[i].written # <<>> => sockets[i].written[1] = "h2_preface"
        /\ Count(sockets[i].written, "http1_request") = 0

\* C37: on a socket with ALPN h2, however many requests it has carried,
\* the HTTP/2 connection preface has been sent once at most, and before the
\* first HTTP/2 request.
C37_PrefaceOnce ==
    \A i \in H2Sockets :
        /\ Count(sockets[i].written, "h2_preface") <= 1
        /\ Count(sockets[i].written, "h2_request") > 0
              => Count(sockets[i].written, "h2_preface") = 1

\* C35: between operations on a Connection, closed = FALSE only with a
\* socket held; and when the last operation was close(), closed = TRUE and
\* no socket is held.
C35_ClosedConsistent ==
    /\ ~connection.closed => connection.sock # 0
    /\ last_call.op = "close" => (connection.closed /\ connection.sock = 0)

\* C39: when Client.stream has raised, every socket dialled during the call
\* is closed.
C39_StreamRaiseClosesSockets ==
    (last_call.op = "Client.stream" /\ last_call.error # None)
        => \A i \in last_call.opened : sockets[i].state = "closed"

(***************************************************************************)
(* Claims about the HTTP/1.1 readers.                                      *)
(***************************************************************************)
\* The framing the readers are to choose: chunked exactly when the
\* Transfer-Encoding value ends with chunked, else Content-Length bytes when
\* the header is present, else until EOF.
ExpectedFraming(te, cl) ==
    IF EndsWithChunked(te) THEN "chunked"
    ELSE IF cl # "absent" THEN "content-length"
    ELSE "until-close"

\* C33: for every response head, the blocking and the cooperative reader
\* that have read it chose the same body framing, the one above.
C33_SameFraming ==
    /\ chosen["blocking"] # NotRead
          => chosen["blocking"].framing = ExpectedFraming(head.te, head.cl)
    /\ chosen["cooperative"] # NotRead
          => chosen["cooperative"].framing = ExpectedFraming(head.te, head.cl)

(***************************************************************************)
(* Claims about the Connection header of a request.                        *)
(***************************************************************************)
\* The canonicalized header list of the request drawn.
CanonicalList ==
    canonicalize_headers(merged_headers.profile.default,
                         RequestHeaders(merged_headers.headers),
                         merged_headers.profile.order)

\* Connection: keep-alive stands at index 1 of the list (the second place),
\* right after Host.
KeepAliveAfterHost(list) ==
    /\ Len(list) >= 2
    /\ list[2] = <<ConnectionName, KeepAliveValue>>
    /\ list[1][1] = HostName

\* C34: when the canonicalized list has no Connection header, the list
\* either client writes has Connection: keep-alive at index 1, right after
\* the Host header, whatever the profile's header order.
C34_KeepAliveAfterHost ==
    \A cls \in {"Client", "AsyncClient"} :
        (merged_headers[cls].built /\ ~SeenConn(CanonicalList))
            => KeepAliveAfterHost(merged_headers[cls].list)

(***************************************************************************)
(* Claims about streaming responses.                                       *)
(***************************************************************************)
\* C38: once close() has returned, no generator of the response, one that
\* was partly consumed before the close included, reads from the socket again
\* or yields further data.
C38_NothingAfterClose ==
    sresp.closed => (~sresp.read_after_close /\ ~sresp.yielded_after_close)

====
